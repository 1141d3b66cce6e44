-------------------------------- MODULE Push --------------------------------
(***************************************************************************)
(* Push notifications to one rider's devices.  A push takes one of the     *)
(* notifier's slots or is dropped, reads the rider's device tokens, and    *)
(* sends to each over FCM: with a cached access token, and once more with  *)
(* a new one when the first try may be worth repeating.  The access token  *)
(* is minted under a mutex that is held through the HTTP call.  A device   *)
(* FCM has retired is forgotten.                                           *)
(***************************************************************************)
EXTENDS Naturals, FiniteSets

CONSTANTS
  Devices,     \* device tokens the rider's apps may have
  MaxPushes,   \* bound on the pushes, numbered as they are dispatched
  PushSlots,   \* capacity of the notifier's semaphore (64)
  MaxMinted    \* bound on the access tokens minted

ASSUME PushAssumption ==
  PushSlots \in Nat \ {0} /\ MaxMinted \in Nat \ {0} /\ MaxPushes \in Nat
Pushes == 1 .. MaxPushes  \* offers, closures, chat messages and assignments

VARIABLES
  registered,  \* devices in rider_device_tokens
  live,        \* devices FCM still delivers to
  minted,      \* access tokens minted so far: the last one is cached
  revoked,     \* how many of them Google no longer takes
  slotsTaken,
  minting,     \* the push that holds the mutex, if any
  push         \* what each push is doing

pushVars == <<registered, live, minted, revoked, slotsTaken, minting, push>>

NotPushed == [step |-> "new"]
PushDone == [step |-> "done"]
NobodyMints == 0
InFlight(p) == push[p] \notin {NotPushed, PushDone}
SendSteps == {"token", "mint", "post", "remove"}
Sending == [step : SendSteps, todo : SUBSET Devices, device : Devices,
            attempt : 0 .. 1, token : 0 .. MaxMinted]

PushTypeOK ==
  /\ registered \subseteq Devices /\ live \subseteq Devices
  /\ minted \in 0 .. MaxMinted /\ revoked \in 0 .. minted
  /\ slotsTaken \in 0 .. PushSlots
  /\ slotsTaken = Cardinality({p \in Pushes : InFlight(p)})
  /\ push \in [Pushes -> Sending \cup {NotPushed, PushDone, [step |-> "lookup"]}]
  /\ minting \in {NobodyMints} \cup Pushes
  /\ \A p \in Pushes : minting = p <=> push[p].step = "mint"

PushInit ==
  /\ registered = {} /\ live = Devices
  /\ minted = 0 /\ revoked = 0
  /\ slotsTaken = 0 /\ minting = NobodyMints
  /\ push = [p \in Pushes |-> NotPushed]

-----------------------------------------------------------------------------
(* Devices and Google. *)
Registers(d) ==
  /\ d \in live \ registered
  /\ registered' = registered \cup {d}
  /\ UNCHANGED <<live, minted, revoked, slotsTaken, minting, push>>

SignsOut(d) ==
  /\ d \in registered
  /\ registered' = registered \ {d}
  /\ UNCHANGED <<live, minted, revoked, slotsTaken, minting, push>>

Retires(d) ==
  /\ d \in live
  /\ live' = live \ {d}
  /\ UNCHANGED <<registered, minted, revoked, slotsTaken, minting, push>>

RevokesToken ==
  /\ revoked' = minted /\ revoked # minted
  /\ UNCHANGED <<registered, live, minted, slotsTaken, minting, push>>

-----------------------------------------------------------------------------
Ends(p) == /\ push' = [push EXCEPT ![p] = PushDone]
           /\ slotsTaken' = slotsTaken - 1

SendsTo(p, todo, d) ==
  /\ push' = [push EXCEPT ![p] = [step |-> "token", todo |-> todo \ {d}, device |-> d,
                                  attempt |-> 0, token |-> 0]]
  /\ UNCHANGED slotsTaken

(* One after the other; a device that failed is not tried again. *)
NextDevice(p, todo) ==
  IF todo = {} THEN Ends(p) ELSE \E d \in todo : SendsTo(p, todo, d)

Dispatches(p) ==
  /\ push[p] = NotPushed
  /\ \A earlier \in 1 .. p - 1 : push[earlier] # NotPushed
  /\ IF slotsTaken < PushSlots
     THEN /\ slotsTaken' = slotsTaken + 1
          /\ push' = [push EXCEPT ![p] = [step |-> "lookup"]]
     ELSE /\ push' = [push EXCEPT ![p] = PushDone]
          /\ UNCHANGED slotsTaken
  /\ UNCHANGED <<registered, live, minted, revoked, minting>>

LooksUpTokens(p) ==
  /\ push[p].step = "lookup"
  /\ Ends(p) \/ NextDevice(p, registered)
  /\ UNCHANGED <<registered, live, minted, revoked, minting>>

(* The second try never takes the cached access token. *)
TakesToken(p) ==
  /\ push[p].step = "token" /\ minting = NobodyMints
  /\ IF minted > 0 /\ push[p].attempt = 0
     THEN /\ push' = [push EXCEPT ![p].step = "post", ![p].token = minted]
          /\ UNCHANGED minting
     ELSE /\ push' = [push EXCEPT ![p].step = "mint"]
          /\ minting' = p
  /\ UNCHANGED <<registered, live, minted, revoked, slotsTaken>>

MintSucceeds(p) ==
  /\ push[p].step = "mint" /\ minted < MaxMinted
  /\ minted' = minted + 1
  /\ push' = [push EXCEPT ![p].step = "post", ![p].token = minted + 1]
  /\ minting' = NobodyMints
  /\ UNCHANGED <<registered, live, revoked, slotsTaken>>

MintFailsLocked(p) ==
  /\ push[p].step = "mint"
  /\ NextDevice(p, push[p].todo)
  /\ UNCHANGED <<registered, live, minted, revoked, minting>>

(* No second try for a device when no token could be had. *)
MintFails(p) ==
  /\ push[p].step = "mint"
  /\ minting' = NobodyMints
  /\ NextDevice(p, push[p].todo)
  /\ UNCHANGED <<registered, live, minted, revoked>>

(* What FCM may answer: worth repeating are a refused access token, a      *)
(* quota, a server error and no answer at all.                             *)
Answers(j) == {"again", "bad payload"} \cup
              (IF j.token <= revoked THEN {} ELSE IF j.device \in live THEN {"ok"} ELSE {"retired"})

PostGives(p, answer) ==
  /\ CASE answer = "retired" -> push' = [push EXCEPT ![p].step = "remove"] /\ UNCHANGED slotsTaken
       [] answer = "again" /\ push[p].attempt = 0 ->
            push' = [push EXCEPT ![p].step = "token", ![p].attempt = 1] /\ UNCHANGED slotsTaken
       [] OTHER -> NextDevice(p, push[p].todo)
  /\ UNCHANGED <<registered, live, minted, revoked, minting>>

Posts(p) ==
  /\ push[p].step = "post"
  /\ \E answer \in Answers(push[p]) : PostGives(p, answer)

(* RemoveDeviceToken, whose error is only logged. *)
RemovesDevice(p) ==
  /\ push[p].step = "remove"
  /\ registered' \in {registered, registered \ {push[p].device}}
  /\ NextDevice(p, push[p].todo)
  /\ UNCHANGED <<live, minted, revoked, minting>>

PanicsAndKeepsSlot(p) ==
  /\ push[p].step \in {"lookup", "post", "remove"}
  /\ push' = [push EXCEPT ![p] = PushDone]
  /\ UNCHANGED <<registered, live, minted, revoked, slotsTaken, minting>>

(* A panic while sending is recovered, and the slot given back. *)
PanicsAndEnds(p) ==
  /\ push[p].step \in {"lookup", "post", "remove"}
  /\ Ends(p)
  /\ UNCHANGED <<registered, live, minted, revoked, minting>>

PushProceeds(p) == \/ LooksUpTokens(p)
                   \/ TakesToken(p)
                   \/ MintSucceeds(p)
                   \/ MintFails(p)
                   \/ Posts(p)
                   \/ RemovesDevice(p)

PushNext ==
  \/ \E d \in Devices : Registers(d) \/ SignsOut(d) \/ Retires(d)
  \/ RevokesToken
  \/ \E p \in Pushes : Dispatches(p) \/ PushProceeds(p) \/ PanicsAndEnds(p)

(* Every push has a goroutine; each call out has a timeout. *)
PushFairness == \A p \in Pushes : WF_pushVars(PushProceeds(p))
PushSpec == PushInit /\ [][PushNext]_pushVars /\ PushFairness

-----------------------------------------------------------------------------
(* A device is only forgotten once FCM has retired it, whatever else went  *)
(* wrong with the push.                                                    *)
OnlyRetiredForgotten ==
  \A p \in Pushes : push[p].step = "remove" => push[p].device \notin live

(* Every push ends and gives its slot back, even when others fail while    *)
(* they hold the mutex: again and again, none is in flight.                *)
PushesEnd == []<>(\A p \in Pushes : ~InFlight(p))
=============================================================================
