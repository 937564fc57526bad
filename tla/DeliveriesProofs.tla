-------------------------- MODULE DeliveriesProofs --------------------------
(***************************************************************************)
(* What becomes of the events of shipments, for any hooks, any number of   *)
(* attempts, reconnections and kept notifications, and any events and      *)
(* signals.  One invariant for each listener:                              *)
(*                                                                         *)
(*   - HooksInv: the loop over the attempts of one hook is the only thing  *)
(*     that posts an event to it, it is at its attempt-th post, and the    *)
(*     hook has not answered it;                                           *)
(*   - MailsInv: the letters tried and those left are the letters of the   *)
(*     event, in their order;                                              *)
(*   - SocketInv: there is a handler on the socket exactly while the       *)
(*     effect is subscribed, and what is on the wire was sent after what   *)
(*     is in the list, in order; then no message is heard twice, and every *)
(*     entry of the list the user has not seen is counted.                 *)
(***************************************************************************)
EXTENDS Deliveries, FiniteSetTheorems, SequenceTheorems, TLAPS

Parties == {"shipper", "carrier"}
ShipmentEvents == [kind : Kinds, carrier : Carriers]

Logged ==
    /\ due \in Seq(Seq(Parties))
    /\ Len(due) <= MaxEvents
    /\ signals \in Nat

-----------------------------------------------------------------------------
Tasks == [hook : Hooks, event : Events, attempt : 1..Attempts, waiting : BOOLEAN]

(* The lookup for e is over. *)
LookedUp(e) == e <= Len(due) /\ e \notin lookups

HooksTyped ==
    /\ hooks \subseteq Hooks
    /\ lookups \subseteq 1..Len(due)
    /\ tasks \subseteq Tasks
    /\ posts \in [Deliveries -> Nat]
    /\ acked \subseteq Deliveries

(* A loop is at its attempt-th post, or waits for the one after it.        *)
AtItsAttempt ==
    \A t \in tasks :
        /\ LookedUp(t.event)
        /\ posts[<<t.hook, t.event>>] = IF t.waiting THEN t.attempt ELSE t.attempt - 1
        /\ t.waiting => t.attempt < Attempts
        /\ <<t.hook, t.event>> \notin acked

OneLoop ==
    \A t, u \in tasks : t.hook = u.hook /\ t.event = u.event => t = u

Posted ==
    \A d \in Deliveries : posts[d] > 0 \/ d \in acked => LookedUp(d[2])

HooksInv == HooksTyped /\ AtItsAttempt /\ OneLoop /\ Posted /\ AcknowledgedOrTried

-----------------------------------------------------------------------------
MailsInv ==
    /\ letters \in [Events -> Seq(Parties)]
    /\ tried \in [Events -> Seq(Parties)]
    /\ \A e \in Events : e > Len(due) => tried[e] = <<>> /\ letters[e] = <<>>
    /\ EachPartyIsWritten

-----------------------------------------------------------------------------
Sockets ==
    [state : {"none", "connecting", "open", "refused", "down"},
     auth : {"none", "fresh", "stale"}, tries : Nat, handlers : {0, 1}]

Sent == [event : 1..Len(due), to : Parties]
Entries == [event : 1..Len(due), to : Parties, read : BOOLEAN]

(* Messages in the order they are sent in.                                 *)
Mark(m) == 2 * m.event + IF m.to = "carrier" THEN 1 ELSE 0

SocketTyped ==
    /\ tab \in [user : BOOLEAN, token : {"none", "fresh", "stale"}, socket : Sockets,
                subscribed : BOOLEAN]
    /\ wire \in Seq(Sent)
    /\ store \in [list : Seq(Entries), unread : Nat, open : BOOLEAN]
    /\ Len(store.list) <= Kept

OneHandler == tab.socket.handlers = IF tab.subscribed THEN 1 ELSE 0

InOrder == \A i, j \in DOMAIN wire : i < j => Mark(wire[i]) < Mark(wire[j])

NewerThanListed ==
    \A i \in DOMAIN store.list, j \in DOMAIN wire : Mark(store.list[i]) < Mark(wire[j])

SocketInv ==
    SocketTyped /\ OneHandler /\ InOrder /\ NewerThanListed /\ HeardOnce /\ UnreadCounted

DeliveriesInv == Logged /\ HooksInv /\ MailsInv /\ SocketInv

LEMMA Bounds ==
    Attempts \in Nat /\ Attempts > 0 /\ Kept \in Nat /\ Kept > 0 /\ MaxEvents \in Nat
  BY DeliveryBounds DEF DeliveryBounds

-----------------------------------------------------------------------------
(* What a step touches.                                                    *)
HookStep ==
    \/ \E h \in Hooks : RegisterHook(h) \/ RemoveHook(h)
    \/ \E e \in Events : FindHooks(e)
    \/ \E t \in tasks : Post(t) \/ Retry(t)

BrowserStep ==
    \/ SignIn \/ SignOut \/ SetUser \/ Reload \/ Expire \/ RefreshToken
    \/ HandleConnection \/ Disconnect \/ Reconnect
    \/ HandleUpdate \/ HandleOpen \/ ClearAll

LEMMA StepKinds ==
    ASSUME Next
    PROVE  \/ \E event \in ShipmentEvents : Emit(event)
           \/ HookStep
           \/ \E e \in Events : SendSafe(e)
           \/ BrowserStep
           \/ Crash
  BY Zenon DEF Next, Deliver, HookStep, BrowserStep, ShipmentEvents

LEMMA HookStepTouches ==
    ASSUME HookStep
    PROVE  UNCHANGED <<follow, due, letters, tried, tab, wire, store, signals>>
<1>1. CASE \E h \in Hooks : RegisterHook(h) \/ RemoveHook(h)
  BY <1>1 DEF RegisterHook, RemoveHook, mailVars, tabVars
<1>2. CASE \E e \in Events : FindHooks(e)
  BY <1>2 DEF FindHooks, mailVars, tabVars
<1>3. CASE \E t \in tasks : Post(t) \/ Retry(t)
  BY <1>3 DEF Post, Retry, mailVars, tabVars
<1> QED
  BY <1>1, <1>2, <1>3 DEF HookStep

LEMMA BrowserStepTouches ==
    ASSUME BrowserStep, Logged
    PROVE  /\ UNCHANGED <<follow, due, hooks, lookups, tasks, posts, acked, letters, tried>>
           /\ signals' \in Nat /\ signals' >= signals
<1>1. TabStep
  BY DEF BrowserStep, SignIn, SignOut, SetUser, Reload, Expire, RefreshToken, HandleConnection,
         Disconnect, Reconnect, HandleUpdate, HandleOpen, ClearAll
<1>2. signals' = signals \/ signals' = signals + 1
  BY DEF BrowserStep, SignIn, SignOut, SetUser, Reload, Expire, RefreshToken, HandleConnection,
         Disconnect, Reconnect, HandleUpdate, HandleOpen, ClearAll, Signal
<1> QED
  BY <1>1, <1>2 DEF TabStep, hookVars, mailVars, Logged

LEMMA LettersToParties ==
    ASSUME NEW event
    PROVE  LettersOf(event) \in Seq(Parties)
<1>1. /\ <<>> \in Seq(Parties) /\ <<"shipper">> \in Seq(Parties)
      /\ <<"shipper", "carrier">> \in Seq(Parties) /\ <<"carrier", "shipper">> \in Seq(Parties)
  BY DEF Parties
<1>2. LettersToBoth(event) \in Seq(Parties) /\ LettersToWhoIsThere(event) \in Seq(Parties)
  BY <1>1 DEF LettersToBoth, LettersToWhoIsThere
<1> QED
  BY <1>1, <1>2 DEF LettersOf

LEMMA EmitLogs ==
    ASSUME Logged, NEW event \in ShipmentEvents, Emit(event)
    PROVE  /\ Logged'
           /\ Len(due') = Len(due) + 1
           /\ Len(due) + 1 \in Events
           /\ \A e \in 1..Len(due) : due'[e] = due[e]
           /\ due'[Len(due) + 1] \in Seq(Parties)
           /\ letters' = [letters EXCEPT ![Len(due) + 1] = due'[Len(due) + 1]]
<1> DEFINE parties == IF follow = "mails" THEN LettersOf(event) ELSE <<>>
<1>1. parties \in Seq(Parties)
  <2>1. LettersOf(event) \in Seq(Parties) /\ <<>> \in Seq(Parties)
    BY LettersToParties
  <2> QED
    BY <2>1
<1>2. /\ due' = Append(due, parties) /\ signals' = signals /\ Len(due) < MaxEvents
      /\ letters' = [letters EXCEPT ![Len(due) + 1] = parties]
  BY DEF Emit
<1> HIDE DEF parties
<1>3. /\ due' \in Seq(Seq(Parties))
      /\ Len(due') = Len(due) + 1
      /\ \A e \in 1..Len(due) : due'[e] = due[e]
      /\ due'[Len(due) + 1] = parties
  BY <1>1, <1>2 DEF Logged
<1> QED
  BY <1>1, <1>2, <1>3, DeliveryBounds DEF Logged, Events

LEMMA StepLogs ==
    ASSUME Logged, [Next]_vars
    PROVE  Logged' /\ Len(due') >= Len(due) /\ signals' >= signals
<1>1. CASE UNCHANGED vars
  BY <1>1 DEF vars, tabVars, Logged
<1>2. CASE \E event \in ShipmentEvents : Emit(event)
  <2>1. PICK event \in ShipmentEvents : Emit(event)
    BY <1>2
  <2>2. Logged' /\ Len(due') = Len(due) + 1 /\ Len(due) \in Nat
    BY <2>1, EmitLogs DEF Logged
  <2>3. signals' = signals
    BY <2>1 DEF Emit
  <2> QED
    BY <2>2, <2>3 DEF Logged
<1>3. CASE HookStep
  BY <1>3, HookStepTouches DEF Logged
<1>4. CASE \E e \in Events : SendSafe(e)
  BY <1>4 DEF SendSafe, tabVars, Logged
<1>5. CASE BrowserStep
  BY <1>5, BrowserStepTouches DEF Logged
<1>6. CASE Crash
  BY <1>6 DEF Crash, Logged
<1> QED
  BY <1>1, <1>2, <1>3, <1>4, <1>5, <1>6, StepKinds

-----------------------------------------------------------------------------
(* Webhooks.                                                               *)

(* A step that leaves the loops and the posts alone, and after which what  *)
(* was looked up still is.                                                 *)
LEMMA LoopsLeftAlone ==
    ASSUME HooksInv, Logged, Logged', UNCHANGED <<tasks, posts, acked>>,
           hooks' \subseteq Hooks, lookups' \subseteq 1..Len(due'),
           \A e \in Events : LookedUp(e) => LookedUp(e)',
           signals' >= signals
    PROVE  HooksInv'
<1>1. \A t \in tasks : t.event \in Events
  BY DEF HooksInv, HooksTyped, Tasks
<1>2. \A d \in Deliveries : d[2] \in Events
  BY DEF Deliveries
<1>3. HooksTyped'
  BY DEF HooksInv, HooksTyped
<1>4. AtItsAttempt' /\ OneLoop' /\ Posted'
  BY <1>1, <1>2 DEF HooksInv, AtItsAttempt, OneLoop, Posted
<1>5. \A d \in Deliveries : Trying(d)' <=> Trying(d)
  BY DEF Trying
<1>6. signals > 0 => signals' > 0
  BY DEF Logged
<1>7. AcknowledgedOrTried'
  BY <1>5, <1>6 DEF HooksInv, AcknowledgedOrTried
<1> QED
  BY <1>3, <1>4, <1>7 DEF HooksInv

(* No loop of e runs while e is looked up, nor has e been posted.          *)
LEMMA FindHooksKeeps ==
    ASSUME HooksInv, Logged, NEW e \in Events, FindHooks(e)
    PROVE  HooksInv'
<1> DEFINE new == [hook : hooks, event : {e}, attempt : {1}, waiting : {FALSE}]
<1>1. /\ e \in lookups /\ lookups' = lookups \ {e}
      /\ tasks' = tasks \cup new \/ tasks' = tasks
      /\ UNCHANGED <<hooks, posts, acked, due, signals>>
  BY DEF FindHooks, tabVars
<1>2. e <= Len(due)
  BY <1>1 DEF HooksInv, HooksTyped, Logged
<1>3. \A x \in Events : LookedUp(x) => LookedUp(x)'
  BY <1>1 DEF LookedUp
<1>6. 1 \in 1..Attempts
  BY Bounds
<1>4. CASE tasks' = tasks
  BY <1>1, <1>3, <1>4, LoopsLeftAlone DEF HooksInv, HooksTyped, Logged
<1>5. CASE tasks' = tasks \cup new
  <2>1. \A t \in new : /\ t \in Tasks /\ t.hook \in Hooks
                       /\ t.event = e /\ t.attempt = 1 /\ t.waiting = FALSE
    BY <1>6 DEF Tasks, HooksInv, HooksTyped
  <2>2. \A t \in new, u \in new : t.hook = u.hook => t = u
    <3> SUFFICES ASSUME NEW t \in new, NEW u \in new, t.hook = u.hook PROVE t = u
      OBVIOUS
    <3>1. /\ t = [hook |-> t.hook, event |-> e, attempt |-> 1, waiting |-> FALSE]
          /\ u = [hook |-> u.hook, event |-> e, attempt |-> 1, waiting |-> FALSE]
      OBVIOUS
    <3> QED
      BY <3>1
  <2> HIDE DEF new
  <2>3. \A h \in Hooks : posts[<<h, e>>] = 0 /\ <<h, e>> \notin acked
    <3> SUFFICES ASSUME NEW h \in Hooks PROVE posts[<<h, e>>] = 0 /\ <<h, e>> \notin acked
      OBVIOUS
    <3>1. <<h, e>> \in Deliveries /\ <<h, e>>[2] = e
      BY DEF Deliveries
    <3>2. ~LookedUp(e)
      BY <1>1 DEF LookedUp
    <3>3. ~(posts[<<h, e>>] > 0) /\ <<h, e>> \notin acked
      BY <3>1, <3>2 DEF HooksInv, Posted
    <3> QED
      BY <3>1, <3>3 DEF HooksInv, HooksTyped
  <2>4. LookedUp(e)'
    BY <1>1, <1>2 DEF LookedUp
  <2>5. \A t \in tasks : t.event # e /\ t.event \in Events
    BY <1>1 DEF HooksInv, HooksTyped, Tasks, AtItsAttempt, LookedUp
  <2>6. HooksTyped'
    BY <1>1, <1>5, <2>1 DEF HooksInv, HooksTyped
  <2>7. AtItsAttempt'
    <3> SUFFICES ASSUME NEW t \in tasks'
                 PROVE  (/\ LookedUp(t.event)
                         /\ posts[<<t.hook, t.event>>] = IF t.waiting THEN t.attempt ELSE t.attempt - 1
                         /\ t.waiting => t.attempt < Attempts
                         /\ <<t.hook, t.event>> \notin acked)'
      BY DEF AtItsAttempt
    <3>1. CASE t \in tasks
      BY <1>1, <1>3, <2>5, <3>1 DEF HooksInv, AtItsAttempt
    <3>2. CASE t \in new
      BY <1>1, <2>1, <2>3, <2>4, <3>2
    <3> QED
      BY <1>5, <3>1, <3>2
  <2>8. OneLoop'
    BY <1>5, <2>1, <2>2, <2>5 DEF HooksInv, OneLoop
  <2>9. Posted'
    BY <1>1, <1>3 DEF HooksInv, Posted, Deliveries
  <2>10. AcknowledgedOrTried'
    <3> SUFFICES ASSUME NEW d \in Deliveries
                 PROVE  (/\ posts[d] <= Attempts
                         /\ d \in acked => ~Trying(d)
                         /\ posts[d] \in 1..Attempts - 1 => d \in acked \/ Trying(d) \/ signals > 0)'
      BY DEF AcknowledgedOrTried
    <3>1. Trying(d) => Trying(d)'
      BY <1>5 DEF Trying
    <3>2. posts[d] <= Attempts /\ (posts[d] \in 1..Attempts - 1 => d \in acked \/ Trying(d) \/ signals > 0)
      BY DEF HooksInv, AcknowledgedOrTried
    <3>3. ASSUME d \in acked, NEW t \in tasks', t.hook = d[1], t.event = d[2] PROVE FALSE
      <4>1. <<t.hook, t.event>> = d
        BY <3>3 DEF Deliveries
      <4> QED
        BY <1>1, <2>7, <3>3, <4>1 DEF AtItsAttempt
    <3> QED
      BY <1>1, <3>1, <3>2, <3>3 DEF Trying
  <2> QED
    BY <2>6, <2>7, <2>8, <2>9, <2>10 DEF HooksInv
<1> QED
  BY <1>1, <1>4, <1>5

(* A loop over the attempts moves on, or ends because the hook answered or *)
(* no attempt is left.                                                     *)
LEMMA LoopMoves ==
    ASSUME HooksInv, Logged, NEW t \in tasks, NEW left \in SUBSET Tasks,
           tasks' = (tasks \ {t}) \cup left,
           \A u \in left : u.hook = t.hook /\ u.event = t.event,
           \A u, v \in left : u = v,
           posts' \in [Deliveries -> Nat], acked \subseteq acked', acked' \subseteq Deliveries,
           \A d \in Deliveries : d # <<t.hook, t.event>> =>
             posts'[d] = posts[d] /\ (d \in acked' => d \in acked),
           \A u \in left : /\ posts'[<<t.hook, t.event>>] =
                                IF u.waiting THEN u.attempt ELSE u.attempt - 1
                           /\ u.waiting => u.attempt < Attempts
                           /\ <<t.hook, t.event>> \notin acked',
           posts'[<<t.hook, t.event>>] <= Attempts,
           left = {} => <<t.hook, t.event>> \in acked' \/ posts'[<<t.hook, t.event>>] = Attempts,
           UNCHANGED <<hooks, lookups, due, signals>>
    PROVE  HooksInv'
<1> DEFINE own == <<t.hook, t.event>>
<1>1. t \in Tasks /\ own \in Deliveries /\ own[2] = t.event /\ own[1] = t.hook
  BY DEF HooksInv, HooksTyped, Tasks, Deliveries
<1>2. LookedUp(t.event) /\ \A e \in Events : LookedUp(e)' <=> LookedUp(e)
  BY DEF HooksInv, AtItsAttempt, LookedUp
<1>3. \A u \in tasks \ {t} : <<u.hook, u.event>> \in Deliveries /\ <<u.hook, u.event>> # own
  BY <1>1 DEF HooksInv, HooksTyped, OneLoop, Tasks, Deliveries
<1>4. \A u \in left : <<u.hook, u.event>> = own
  OBVIOUS
<1>5. HooksTyped'
  BY DEF HooksInv, HooksTyped
<1>6. AtItsAttempt'
  <2> SUFFICES ASSUME NEW u \in tasks'
               PROVE  (/\ LookedUp(u.event)
                       /\ posts[<<u.hook, u.event>>] = IF u.waiting THEN u.attempt ELSE u.attempt - 1
                       /\ u.waiting => u.attempt < Attempts
                       /\ <<u.hook, u.event>> \notin acked)'
    BY DEF AtItsAttempt
  <2>1. CASE u \in left
    BY <1>1, <1>2, <1>4, <2>1 DEF Tasks
  <2>2. CASE u \in tasks \ {t}
    BY <1>2, <1>3, <2>2 DEF HooksInv, AtItsAttempt, HooksTyped, Tasks
  <2> QED
    BY <2>1, <2>2
<1>7. OneLoop'
  BY <1>3, <1>4 DEF HooksInv, OneLoop
<1>8. Posted'
  <2> SUFFICES ASSUME NEW d \in Deliveries, posts'[d] > 0 \/ d \in acked' PROVE LookedUp(d[2])'
    BY DEF Posted
  <2>1. d[2] \in Events
    BY DEF Deliveries
  <2>2. CASE d = own
    BY <1>1, <1>2, <2>1, <2>2
  <2>3. CASE d # own
    BY <1>2, <2>1, <2>3 DEF HooksInv, Posted
  <2> QED
    BY <2>2, <2>3
<1>9. AcknowledgedOrTried'
  <2> SUFFICES ASSUME NEW d \in Deliveries
               PROVE  (/\ posts[d] <= Attempts
                       /\ d \in acked => ~Trying(d)
                       /\ posts[d] \in 1..Attempts - 1 => d \in acked \/ Trying(d) \/ signals > 0)'
    BY DEF AcknowledgedOrTried
  <2>1. d \in acked' => ~Trying(d)'
    <3> SUFFICES ASSUME d \in acked', NEW u \in tasks', u.hook = d[1], u.event = d[2] PROVE FALSE
      BY DEF Trying
    <3>1. <<u.hook, u.event>> = d
      BY DEF Deliveries
    <3> QED
      BY <1>6, <3>1 DEF AtItsAttempt
  <2>2. CASE d = own
    <3>1. CASE left = {}
      BY <2>1, <2>2, <3>1, Bounds
    <3>2. CASE left # {}
      <4>1. PICK u \in left : u.hook = own[1] /\ u.event = own[2]
        BY <1>1, <3>2
      <4>2. Trying(d)'
        BY <2>2, <4>1 DEF Trying
      <4> QED
        BY <2>1, <2>2, <4>2
    <3> QED
      BY <3>1, <3>2
  <2>3. CASE d # own
    <3>1. Trying(d) => Trying(d)'
      <4> SUFFICES ASSUME NEW u \in tasks, u.hook = d[1], u.event = d[2] PROVE Trying(d)'
        BY DEF Trying
      <4>1. <<u.hook, u.event>> = d
        BY DEF Deliveries
      <4>2. u # t
        BY <2>3, <4>1
      <4> QED
        BY <4>2 DEF Trying
    <3>2. /\ posts[d] <= Attempts
          /\ posts[d] \in 1..Attempts - 1 => d \in acked \/ Trying(d) \/ signals > 0
      BY DEF HooksInv, AcknowledgedOrTried
    <3> QED
      BY <2>1, <2>3, <3>1, <3>2
  <2> QED
    BY <2>2, <2>3
<1> QED
  BY <1>5, <1>6, <1>7, <1>8, <1>9 DEF HooksInv

LEMMA PostKeeps ==
    ASSUME HooksInv, Logged, NEW t \in tasks, Post(t)
    PROVE  HooksInv'
<1> DEFINE own == <<t.hook, t.event>>
<1>1. PICK ok \in BOOLEAN :
        /\ posts' = [posts EXCEPT ![own] = @ + 1]
        /\ acked' = IF ok THEN acked \cup {own} ELSE acked
        /\ tasks' = (tasks \ {t}) \cup Remaining(t, ok)
  BY DEF Post
<1>2. ~t.waiting /\ UNCHANGED <<hooks, lookups, due, signals>>
  BY DEF Post, tabVars
<1>3. t \in Tasks /\ own \in Deliveries
  BY DEF HooksInv, HooksTyped, Tasks, Deliveries
<1>4. posts[own] = t.attempt - 1 /\ own \notin acked
  BY <1>2 DEF HooksInv, AtItsAttempt
<1>5. /\ posts' \in [Deliveries -> Nat] /\ posts'[own] = t.attempt
      /\ \A d \in Deliveries : d # own => posts'[d] = posts[d]
  BY <1>1, <1>3, <1>4 DEF HooksInv, HooksTyped, Tasks
<1>6. /\ acked \subseteq acked' /\ acked' \subseteq Deliveries
      /\ \A d \in Deliveries : d # own /\ d \in acked' => d \in acked
  BY <1>1, <1>3 DEF HooksInv, HooksTyped
<1>7. t.attempt \in 1..Attempts
  BY <1>3 DEF Tasks
<1>8. CASE ok \/ t.attempt = Attempts
  <2>1. Remaining(t, ok) = {}
    BY <1>8 DEF Remaining
  <2>2. own \in acked' \/ posts'[own] = Attempts
    BY <1>1, <1>5, <1>8
  <2> QED
    BY <1>1, <1>2, <1>5, <1>6, <1>7, <2>1, <2>2, LoopMoves, Bounds
<1>9. CASE ~ok /\ t.attempt # Attempts
  <2> DEFINE u == [t EXCEPT !.waiting = TRUE]
  <2>1. Remaining(t, ok) = {u}
    BY <1>9 DEF Remaining
  <2>2. /\ u \in Tasks /\ u.hook = t.hook /\ u.event = t.event /\ u.attempt = t.attempt
        /\ u.waiting = TRUE
    BY <1>3 DEF Tasks
  <2> HIDE DEF u
  <2>3. own \notin acked' /\ u.attempt < Attempts
    BY <1>1, <1>4, <1>7, <1>9, <2>2, Bounds
  <2> QED
    BY <1>1, <1>2, <1>5, <1>6, <1>7, <2>1, <2>2, <2>3, LoopMoves, Bounds
<1> QED
  BY <1>8, <1>9

LEMMA RetryKeeps ==
    ASSUME HooksInv, Logged, NEW t \in tasks, Retry(t)
    PROVE  HooksInv'
<1> DEFINE own == <<t.hook, t.event>>
           u == Retried(t)
<1>1. /\ t.waiting /\ tasks' = (tasks \ {t}) \cup {u}
      /\ UNCHANGED <<hooks, lookups, due, signals, posts, acked>>
  BY DEF Retry, tabVars
<1>2. t \in Tasks
  BY DEF HooksInv, HooksTyped
<1>3. posts[own] = t.attempt /\ own \notin acked /\ t.attempt < Attempts
  BY <1>1 DEF HooksInv, AtItsAttempt
<1>4. t.attempt + 1 \in 1..Attempts
  BY <1>2, <1>3, Bounds DEF Tasks
<1>5. /\ u \in Tasks /\ u.hook = t.hook /\ u.event = t.event /\ u.attempt = t.attempt + 1
      /\ u.waiting = FALSE
  BY <1>2, <1>4 DEF Tasks, Retried
<1> HIDE DEF u
<1>6. posts[own] <= Attempts /\ posts[own] = u.attempt - 1
  BY <1>2, <1>3, <1>4, <1>5, Bounds DEF Tasks
<1> QED
  <2>1. /\ posts' \in [Deliveries -> Nat] /\ acked' \subseteq Deliveries /\ acked' = acked
        /\ \A d \in Deliveries : posts'[d] = posts[d]
        /\ posts'[own] <= Attempts /\ posts'[own] = u.attempt - 1
    BY <1>1, <1>6 DEF HooksInv, HooksTyped
  <2>2. {u} \in SUBSET Tasks /\ {u} # {}
    BY <1>5
  <2> QED
    BY <1>1, <1>3, <1>5, <2>1, <2>2, LoopMoves

LEMMA HooksStep ==
    ASSUME HooksInv, Logged, [Next]_vars
    PROVE  HooksInv'
<1>0. Logged' /\ Len(due') >= Len(due) /\ signals' >= signals
  BY StepLogs
<1>1. ASSUME UNCHANGED <<hooks, lookups, tasks, posts, acked>> PROVE HooksInv'
  BY <1>0, <1>1, LoopsLeftAlone DEF HooksInv, HooksTyped, LookedUp, Logged, Events
<1>2. CASE UNCHANGED vars
  BY <1>1, <1>2 DEF vars, hookVars
<1>3. ASSUME NEW event \in ShipmentEvents, Emit(event) PROVE HooksInv'
  <2>1. /\ lookups' = lookups \/ lookups' = lookups \cup {Len(due) + 1}
        /\ UNCHANGED <<hooks, tasks, posts, acked>>
    BY <1>3 DEF Emit
  <2>2. Len(due') = Len(due) + 1
    BY <1>3, EmitLogs
  <2>5. Len(due) \in Nat
    BY DEF Logged
  <2>3. lookups' \subseteq 1..Len(due')
    <3>1. lookups \subseteq 1..Len(due)
      BY DEF HooksInv, HooksTyped
    <3>2. 1..Len(due) \subseteq 1..Len(due') /\ Len(due) + 1 \in 1..Len(due')
      BY <2>2, <2>5
    <3> QED
      BY <2>1, <3>1, <3>2
  <2>4. \A e \in Events : LookedUp(e) => LookedUp(e)'
    BY <2>1, <2>2, <2>5 DEF LookedUp, Events
  <2> QED
    BY <1>0, <2>1, <2>3, <2>4, LoopsLeftAlone DEF HooksInv, HooksTyped
<1>4. ASSUME NEW h \in Hooks, RegisterHook(h) \/ RemoveHook(h) PROVE HooksInv'
  <2>1. hooks' \subseteq Hooks /\ UNCHANGED <<due, lookups, tasks, posts, acked>>
    BY <1>4 DEF RegisterHook, RemoveHook, HooksInv, HooksTyped
  <2> QED
    BY <1>0, <2>1, LoopsLeftAlone DEF HooksInv, HooksTyped, LookedUp
<1>5. CASE HookStep
  BY <1>4, <1>5, FindHooksKeeps, PostKeeps, RetryKeeps DEF HookStep
<1>6. CASE \E e \in Events : SendSafe(e)
  BY <1>1, <1>6 DEF SendSafe, hookVars
<1>7. CASE BrowserStep
  BY <1>1, <1>7, BrowserStepTouches
<1>8. CASE Crash
  <2>1. /\ lookups' = {} /\ tasks' = {} /\ signals' = 1
        /\ UNCHANGED <<due, hooks, posts, acked>>
    BY <1>8 DEF Crash
  <2>2. HooksTyped' /\ AtItsAttempt' /\ OneLoop' /\ Posted'
    BY <2>1 DEF HooksInv, HooksTyped, AtItsAttempt, OneLoop, Posted, LookedUp
  <2>3. AcknowledgedOrTried'
    BY <2>1 DEF HooksInv, AcknowledgedOrTried, Trying
  <2> QED
    BY <2>2, <2>3 DEF HooksInv
<1> QED
  BY <1>2, <1>3, <1>5, <1>6, <1>7, <1>8, StepKinds

-----------------------------------------------------------------------------
(* Mails.                                                                  *)
(* A letter that is tried goes from the front of what is left to the end   *)
(* of what was tried.                                                      *)
LEMMA LetterMoves ==
    ASSUME NEW S, NEW done \in Seq(S), NEW rest \in Seq(S), rest # <<>>
    PROVE  /\ Append(done, Head(rest)) \in Seq(S) /\ Tail(rest) \in Seq(S)
           /\ Append(done, Head(rest)) \o Tail(rest) = done \o rest
<1>1. Head(rest) \in S /\ Tail(rest) \in Seq(S) /\ <<Head(rest)>> \in Seq(S)
  OBVIOUS
<1>2. Append(done, Head(rest)) = done \o <<Head(rest)>>
  BY <1>1, AppendIsConcat
<1>3. <<Head(rest)>> \o Tail(rest) = rest
  <2>1. rest = SubSeq(rest, 1, Len(rest))
    BY SubSeqFull
  <2>2. Len(rest) \in Nat /\ Len(rest) > 0 /\ Head(rest) = rest[1]
    OBVIOUS
  <2>3. Tail(rest) = SubSeq(rest, 2, Len(rest))
    BY TailIsSubSeq
  <2> QED
    BY <1>1, <2>2, SeqEqual, Z3
<1>4. (done \o <<Head(rest)>>) \o Tail(rest) = done \o (<<Head(rest)>> \o Tail(rest))
  BY <1>1, ConcatAssociative
<1> QED
  BY <1>1, <1>2, <1>3, <1>4

LEMMA MailsLeftAlone ==
    ASSUME MailsInv, Logged, Logged', UNCHANGED <<due, follow, letters, tried>>,
           signals' >= signals
    PROVE  MailsInv'
<1>1. signals' = 0 => signals = 0
  BY DEF Logged
<1>2. EachPartyIsWritten'
  BY <1>1 DEF MailsInv, EachPartyIsWritten
<1> QED
  BY <1>2 DEF MailsInv

LEMMA MailsStep ==
    ASSUME MailsInv, Logged, [Next]_vars
    PROVE  MailsInv'
<1>0. Logged' /\ Len(due') >= Len(due) /\ signals' >= signals
  BY StepLogs
<1>1. CASE UNCHANGED vars
  BY <1>0, <1>1, MailsLeftAlone DEF vars, mailVars
<1>2. ASSUME NEW event \in ShipmentEvents, Emit(event) PROVE MailsInv'
  <2> DEFINE n == Len(due) + 1
  <2>1. Len(due) \in Nat
    BY DEF Logged
  <2>2. /\ Len(due') = n /\ n \in Events /\ due' \in Seq(Seq(Parties))
        /\ \A e \in 1..Len(due) : due'[e] = due[e]
        /\ due'[n] \in Seq(Parties) /\ letters' = [letters EXCEPT ![n] = due'[n]]
        /\ UNCHANGED <<follow, tried, signals>>
    BY <1>2, EmitLogs DEF Emit, Logged
  <2>3. DOMAIN due' = 1..n
    BY <2>2
  <2>4. letters' \in [Events -> Seq(Parties)]
    BY <2>2 DEF MailsInv
  <2>5. tried[n] = <<>>
    BY <2>1, <2>2 DEF MailsInv
  <2>6. EachPartyIsWritten'
    <3> SUFFICES ASSUME follow = "mails", signals = 0, NEW e \in 1..n
                 PROVE  tried[e] \o letters'[e] = due'[e]
      BY <2>2, <2>3 DEF EachPartyIsWritten
    <3>1. CASE e = n
      <4>1. letters'[e] = due'[n]
        BY <2>2, <3>1 DEF MailsInv
      <4>2. <<>> \o due'[n] = due'[n]
        BY <2>2, ConcatEmptySeq
      <4> QED
        BY <2>5, <3>1, <4>1, <4>2
    <3>2. CASE e # n
      <4>1. e \in 1..Len(due) /\ e \in Events
        BY <2>1, <2>2, <3>2, Bounds DEF Events
      <4>2. letters'[e] = letters[e] /\ due'[e] = due[e]
        BY <2>2, <3>2, <4>1 DEF MailsInv
      <4>3. tried[e] \o letters[e] = due[e]
        BY <4>1 DEF MailsInv, EachPartyIsWritten, Logged
      <4> QED
        BY <4>2, <4>3
    <3> QED
      BY <3>1, <3>2
  <2>7. \A e \in Events : e > Len(due') => tried'[e] = <<>> /\ letters'[e] = <<>>
    BY <2>1, <2>2 DEF MailsInv, Events
  <2> QED
    BY <2>2, <2>4, <2>6, <2>7 DEF MailsInv
<1>3. CASE HookStep
  BY <1>0, <1>3, HookStepTouches, MailsLeftAlone
<1>4. ASSUME NEW e \in Events, SendSafe(e) PROVE MailsInv'
  <2>1. /\ letters[e] # <<>>
        /\ tried' = [tried EXCEPT ![e] = Append(tried[e], Head(letters[e]))]
        /\ letters' = [letters EXCEPT ![e] = Tail(letters[e])]
        /\ UNCHANGED <<follow, due, signals>>
    BY <1>4 DEF SendSafe, tabVars
  <2>2. letters[e] \in Seq(Parties) /\ tried[e] \in Seq(Parties)
    BY DEF MailsInv
  <2>3. /\ Append(tried[e], Head(letters[e])) \in Seq(Parties)
        /\ Tail(letters[e]) \in Seq(Parties)
        /\ Append(tried[e], Head(letters[e])) \o Tail(letters[e]) = tried[e] \o letters[e]
    BY <2>1, <2>2, LetterMoves
  <2>4. /\ tried' \in [Events -> Seq(Parties)]
        /\ letters' \in [Events -> Seq(Parties)]
    BY <2>1, <2>3 DEF MailsInv
  <2>5. \A x \in Events : tried'[x] \o letters'[x] = tried[x] \o letters[x]
    BY <2>1, <2>3 DEF MailsInv
  <2>6. EachPartyIsWritten'
    <3>1. \A x \in DOMAIN due : x \in Events
      BY Bounds DEF Logged, Events
    <3> QED
      BY <2>1, <2>5, <3>1 DEF MailsInv, EachPartyIsWritten
  <2>7. \A x \in Events : x > Len(due) => x # e
    BY <2>1 DEF MailsInv
  <2>8. \A x \in Events : x > Len(due') => tried'[x] = <<>> /\ letters'[x] = <<>>
    BY <2>1, <2>7 DEF MailsInv
  <2> QED
    BY <2>4, <2>6, <2>8 DEF MailsInv
<1>5. CASE BrowserStep
  BY <1>0, <1>5, BrowserStepTouches, MailsLeftAlone
<1>6. CASE Crash
  <2>1. /\ letters' = [e \in Events |-> <<>>] /\ signals' = 1
        /\ UNCHANGED <<follow, due, tried>>
    BY <1>6 DEF Crash
  <2> QED
    BY <2>1 DEF MailsInv, EachPartyIsWritten
<1> QED
  BY <1>1, <1>2, <1>3, <1>4, <1>5, <1>6, StepKinds

-----------------------------------------------------------------------------
(* The list of the store.                                                  *)
Unread(list) == {i \in DOMAIN list : ~list[i].read}

LEMMA AddedNone ==
    ASSUME NEW S, NEW list \in Seq(S), Len(list) <= Kept, NEW m
    PROVE  Added(list, m, 0) = list
<1> DEFINE none == [i \in 1..0 |-> Entry(m)]
<1>1. none = <<>>
  OBVIOUS
<1>2. none \o list = list
  BY <1>1, ConcatEmptySeq
<1>3. (IF Len(list) < Kept THEN Len(list) ELSE Kept) = Len(list)
  BY Bounds
<1> QED
  BY <1>2, <1>3, SubSeqFull DEF Added

LEMMA AddedOnce ==
    ASSUME NEW S, NEW list \in Seq(S), Len(list) <= Kept, NEW m,
           Entry(m) \in S
    PROVE  /\ Added(list, m, 1) \in Seq(S)
           /\ Len(Added(list, m, 1)) = IF Len(list) < Kept THEN Len(list) + 1 ELSE Kept
           /\ Added(list, m, 1)[1] = Entry(m)
           /\ \A i \in 2..Len(Added(list, m, 1)) : Added(list, m, 1)[i] = list[i - 1]
<1> DEFINE new == Entry(m)
           one == [i \in 1..1 |-> new]
           l == one \o list
           k == IF Len(l) < Kept THEN Len(l) ELSE Kept
<1> HIDE DEF new
<1>1. one \in Seq(S) /\ Len(one) = 1 /\ one[1] = new
  BY DEF new
<1> HIDE DEF one
<1>2. /\ l \in Seq(S) /\ Len(l) = Len(list) + 1 /\ l[1] = new
      /\ \A i \in 2..Len(l) : l[i] = list[i - 1]
  <2>1. l \in Seq(S) /\ Len(l) = Len(one) + Len(list)
    BY <1>1, ConcatProperties
  <2>2. Len(list) \in Nat
    OBVIOUS
  <2>3. \A i \in 1..Len(one) + Len(list) :
          l[i] = IF i <= Len(one) THEN one[i] ELSE list[i - Len(one)]
    BY <1>1, ConcatProperties
  <2> HIDE DEF l
  <2>4. l[1] = new
    BY <1>1, <2>2, <2>3
  <2>5. \A i \in 2..Len(l) : l[i] = list[i - 1]
    BY <1>1, <2>1, <2>2, <2>3
  <2> QED
    BY <1>1, <2>1, <2>2, <2>4, <2>5
<1> HIDE DEF l
<1>3. k \in Nat /\ 1 <= k /\ k <= Len(l) /\ k = IF Len(list) < Kept THEN Len(list) + 1 ELSE Kept
  BY <1>2, Bounds
<1> HIDE DEF k
<1>4. /\ SubSeq(l, 1, k) \in Seq(S) /\ Len(SubSeq(l, 1, k)) = k
      /\ \A i \in 1..k : SubSeq(l, 1, k)[i] = l[i]
  BY <1>2, <1>3
<1>5. Added(list, m, 1) = SubSeq(l, 1, k)
  BY DEF Added, l, k, one, new
<1> DEFINE a == Added(list, m, 1)
<1> HIDE DEF a
<1>8. a \in Seq(S) /\ Len(a) = k /\ \A i \in 1..k : a[i] = l[i]
  BY <1>4, <1>5, Zenon DEF a
<1>6. a[1] = new
  BY <1>2, <1>3, <1>8
<1>7. \A i \in 2..Len(a) : a[i] = list[i - 1]
  BY <1>2, <1>3, <1>8
<1> QED
  BY <1>3, <1>6, <1>7, <1>8 DEF new, a

LEMMA Shift ==
    ASSUME NEW n \in Nat, NEW U \in SUBSET (1..n)
    PROVE  /\ IsFiniteSet(U) /\ IsFiniteSet({i + 1 : i \in U})
           /\ Cardinality({i + 1 : i \in U}) = Cardinality(U)
<1> DEFINE T == {i + 1 : i \in U}
           f == [i \in U |-> i + 1]
<1>1. IsFiniteSet(U)
  <2>1. IsFiniteSet(1..n)
    BY FS_Interval
  <2> QED
    BY <2>1, FS_Subset
<1>2. f \in Bijection(U, T)
  <2>1. f \in [U -> T]
    OBVIOUS
  <2>2. \A i, j \in U : f[i] = f[j] => i = j
    OBVIOUS
  <2>3. \A t \in T : \E i \in U : f[i] = t
    OBVIOUS
  <2> QED
    BY <2>1, <2>2, <2>3 DEF Bijection, Injection, Surjection, IsInjective
<1>3. ExistsBijection(U, T)
  BY <1>2 DEF ExistsBijection
<1> QED
  BY <1>1, <1>3, FS_Bijection

(* A new entry adds one to the unread ones, and may push one out.          *)
LEMMA UnreadAdded ==
    ASSUME NEW S, NEW list \in Seq(S), Len(list) <= Kept, NEW m,
           Entry(m) \in S
    PROVE  LET l == Added(list, m, 1) IN
           /\ Cardinality(Unread(list)) \in Nat
           /\ Cardinality(Unread(l)) \in Nat
           /\ Cardinality(Unread(l)) <= Cardinality(Unread(list)) + 1
           /\ Len(list) < Kept => Cardinality(Unread(l)) = Cardinality(Unread(list)) + 1
<1> DEFINE l == Added(list, m, 1)
           U == Unread(list)
           T == {i + 1 : i \in U}
           Old == {j \in T : j <= Len(l)}
<1>1. /\ l \in Seq(S) /\ Len(l) = IF Len(list) < Kept THEN Len(list) + 1 ELSE Kept
      /\ l[1] = Entry(m)
      /\ \A i \in 2..Len(l) : l[i] = list[i - 1]
  BY AddedOnce
<1>2. DOMAIN list = 1..Len(list) /\ Len(list) \in Nat /\ DOMAIN l = 1..Len(l) /\ Len(l) \in Nat
  BY <1>1
<1>3. U \in SUBSET (1..Len(list))
  BY <1>2 DEF Unread
<1>4. IsFiniteSet(U) /\ IsFiniteSet(T) /\ Cardinality(T) = Cardinality(U)
  BY <1>2, <1>3, Shift
<1>5. Len(l) > 0 /\ Len(l) <= Len(list) + 1 /\ (Len(list) < Kept => Len(l) = Len(list) + 1)
  BY <1>1, <1>2, Bounds
<1>6. Unread(l) = Old \cup {1}
  <2>1. 1 \in Unread(l)
    BY <1>1, <1>2, <1>5 DEF Unread, Entry
  <2>2. ASSUME NEW j \in 2..Len(l) PROVE j \in Unread(l) <=> j \in Old
    <3>1. j - 1 \in 1..Len(list) /\ l[j] = list[j - 1]
      BY <1>1, <1>2, <1>5
    <3>2. j \in Unread(l) <=> j - 1 \in U
      BY <1>2, <3>1 DEF Unread
    <3>3. j \in T <=> j - 1 \in U
      BY <1>3, <3>1
    <3> QED
      BY <3>2, <3>3
  <2>3. \A j \in Old : j \in 2..Len(l)
    BY <1>2, <1>3
  <2>4. Unread(l) \subseteq 1..Len(l)
    BY <1>2 DEF Unread
  <2> QED
    BY <2>1, <2>2, <2>3, <2>4, <1>2
<1>7. 1 \notin Old
  BY <1>2, <1>3
<1>8. Old \in SUBSET T
  OBVIOUS
<1> HIDE DEF U, T, Old, l
<1>9. IsFiniteSet(Old) /\ Cardinality(Old) <= Cardinality(T)
  BY <1>4, <1>8, FS_Subset
<1>10. Cardinality(Unread(l)) = Cardinality(Old) + 1
  BY <1>6, <1>7, <1>9, FS_AddElement
<1>11. Cardinality(Old) \in Nat /\ Cardinality(U) \in Nat
  BY <1>4, <1>9, FS_CardinalityType
<1>12. Len(list) < Kept => Old = T
  <2> SUFFICES ASSUME Len(list) < Kept PROVE Old = T
    OBVIOUS
  <2>1. \A i \in U : i + 1 <= Len(l)
    BY <1>2, <1>3, <1>5
  <2>2. \A j \in T : j <= Len(l)
    BY <2>1 DEF T
  <2> QED
    BY <2>2 DEF Old
<1> QED
  BY <1>4, <1>9, <1>10, <1>11, <1>12 DEF U, l

(* UnreadCounted, of a given store. *)
CountedIn(st) ==
    /\ Cardinality(Unread(st.list)) <= st.unread
    /\ Len(st.list) < Kept => Cardinality(Unread(st.list)) = st.unread

LEMMA CountedMeans == /\ UnreadCounted <=> CountedIn(store)
                      /\ UnreadCounted' <=> CountedIn(store')
  BY Zenon DEF UnreadCounted, CountedIn, Unread

LEMMA NothingUnread ==
    ASSUME NEW list, \A i \in DOMAIN list : list[i].read
    PROVE  Unread(list) = {} /\ Cardinality(Unread(list)) = 0
  BY FS_EmptySet DEF Unread

-----------------------------------------------------------------------------
(* The browser.                                                            *)
Tabs == [user : BOOLEAN, token : {"none", "fresh", "stale"}, socket : Sockets, subscribed : BOOLEAN]

(* The tab by itself: typed, and a handler exactly while subscribed.       *)
TabOk == tab \in Tabs /\ OneHandler

LEMMA EffectKeepsTab ==
    ASSUME TabOk, NEW user \in BOOLEAN, NEW token \in {"none", "fresh", "stale"}, Effect(user, token)
    PROVE  TabOk'
<1> DEFINE old == Cleaned(tab.socket)
           s == Connected(old, token)
<1>1. NoSocket \in Sockets /\ NoSocket.handlers = 0
  BY DEF NoSocket, Sockets
<1>2. tab.socket \in Sockets /\ OneHandler
  BY DEF TabOk, Tabs
<1>3. old \in Sockets /\ old.handlers = 0
  BY <1>2 DEF Cleaned, OneHandler, Sockets, TabOk, Tabs
<1> HIDE DEF old
<1>4. s \in Sockets /\ s.handlers = 0
  BY <1>3 DEF Connected, Sockets, NoSocket
<1> HIDE DEF s
<1>5. CASE ~user
  BY <1>1, <1>5 DEF Effect, TabOk, Tabs, OneHandler
<1>6. CASE user /\ token = "none"
  BY <1>3, <1>6 DEF Effect, TabOk, Tabs, OneHandler, old
<1>7. CASE user /\ token # "none"
  <2>1. tab' = [user |-> TRUE, token |-> token, subscribed |-> TRUE,
                socket |-> [s EXCEPT !.handlers = @ + 1]]
    BY <1>7 DEF Effect, s, old
  <2>2. [s EXCEPT !.handlers = @ + 1] \in Sockets /\ [s EXCEPT !.handlers = @ + 1].handlers = 1
    BY <1>4 DEF Sockets
  <2> QED
    BY <2>1, <2>2 DEF TabOk, Tabs, OneHandler
<1> QED
  BY <1>5, <1>6, <1>7

LEMMA TabKept ==
    ASSUME TabOk, BrowserStep
    PROVE  TabOk'
<1>1. CASE SignIn
  BY <1>1, EffectKeepsTab DEF SignIn
<1>2. CASE SignOut
  BY <1>2, EffectKeepsTab DEF SignOut
<1>3. CASE SetUser
  BY <1>3, EffectKeepsTab DEF SetUser, TabOk, Tabs
<1>4. CASE Reload
  BY <1>4 DEF Reload, TabOk, Tabs, OneHandler, NoSocket, Sockets
<1>5. CASE Expire
  <2>1. PICK a \in {"none", "fresh", "stale"} :
          tab' = [tab EXCEPT !.token = "stale", !.socket = [tab.socket EXCEPT !.auth = a]]
    BY <1>5 DEF Expire, TabOk, Tabs, Sockets
  <2> QED
    BY <2>1 DEF TabOk, Tabs, OneHandler, Sockets
<1>6. CASE RefreshToken
  BY <1>6 DEF RefreshToken, TabOk, Tabs, OneHandler
<1>7. CASE HandleConnection
  BY <1>7 DEF HandleConnection, TabOk, Tabs, OneHandler, Sockets
<1>8. CASE Disconnect
  BY <1>8 DEF Disconnect, TabOk, Tabs, OneHandler, Sockets
<1>9. CASE Reconnect
  <2> DEFINE n == tab.socket.tries + 1
  <2>1. n \in Nat
    BY DEF TabOk, Tabs, Sockets
  <2>2. tab' = [tab EXCEPT !.socket = [tab.socket EXCEPT !.state = "connecting", !.tries = n]]
    BY <1>9 DEF Reconnect, TabOk, Tabs, Sockets
  <2> HIDE DEF n
  <2> QED
    BY <2>1, <2>2 DEF TabOk, Tabs, OneHandler, Sockets
<1>10. CASE HandleUpdate \/ HandleOpen \/ ClearAll
  BY <1>10 DEF HandleUpdate, HandleOpen, ClearAll, TabOk, OneHandler
<1> QED
  BY <1>1, <1>2, <1>3, <1>4, <1>5, <1>6, <1>7, <1>8, <1>9, <1>10 DEF BrowserStep

(* The wire and the list.                                                  *)
LEMMA Marks ==
    /\ \A m \in Sent \cup Entries : Mark(m) \in Nat /\ m.event \in Nat /\ m.to \in Parties
    /\ \A m \in Sent \cup Entries, o \in Sent \cup Entries :
          /\ m.event = o.event /\ m.to = o.to => Mark(m) = Mark(o)
          /\ m.event < o.event => Mark(m) < Mark(o)
    /\ \A m \in Sent \cup Entries : Mark(m)' = Mark(m)
<1>1. \A m \in Sent \cup Entries : m.event \in Nat /\ m.to \in Parties
  BY DEF Sent, Entries
<1> QED
  BY <1>1 DEF Mark

HeardOk ==
    /\ wire \in Seq(Sent)
    /\ store \in [list : Seq(Entries), unread : Nat, open : BOOLEAN]
    /\ Len(store.list) <= Kept
    /\ InOrder /\ NewerThanListed /\ HeardOnce /\ UnreadCounted

LEMMA SocketParts == SocketInv <=> TabOk /\ HeardOk
  BY DEF SocketInv, SocketTyped, TabOk, Tabs, HeardOk

LEMMA WireCut ==
    ASSUME HeardOk, UNCHANGED <<due, store>>, wire' = wire \/ wire' = <<>>
    PROVE  HeardOk'
<1>1. CASE wire' = wire
  BY <1>1 DEF HeardOk, InOrder, NewerThanListed, HeardOnce, UnreadCounted, Entries, Sent, Mark
<1>2. CASE wire' = <<>>
  BY <1>2 DEF HeardOk, InOrder, NewerThanListed, HeardOnce, UnreadCounted, Entries, Sent, Mark
<1> QED
  BY <1>1, <1>2

LEMMA ListEmptied ==
    ASSUME HeardOk, due' = due, wire' = wire \/ wire' = <<>>,
           NEW b \in BOOLEAN, store' = [list |-> <<>>, unread |-> 0, open |-> b]
    PROVE  HeardOk'
<1>1. store'.list = <<>> /\ store'.unread = 0 /\ DOMAIN store'.list = {} /\ Len(store'.list) = 0
  OBVIOUS
<1>2. store' \in [list : Seq(Entries'), unread : Nat, open : BOOLEAN]
  OBVIOUS
<1>3. wire' \in Seq(Sent') /\ InOrder'
  <2>1. CASE wire' = wire
    BY <2>1 DEF HeardOk, InOrder, Sent, Mark
  <2>2. CASE wire' = <<>>
    BY <2>2 DEF InOrder
  <2> QED
    BY <2>1, <2>2
<1>4. NewerThanListed' /\ HeardOnce'
  BY <1>1 DEF NewerThanListed, HeardOnce
<1>5. UnreadCounted'
  <2>1. Cardinality(Unread(store'.list)) = 0
    BY <1>1, NothingUnread
  <2> QED
    BY <1>1, <2>1, CountedMeans DEF CountedIn
<1> QED
  BY <1>1, <1>2, <1>3, <1>4, <1>5, Bounds DEF HeardOk

LEMMA AllReadKeeps ==
    ASSUME HeardOk, UNCHANGED <<due, wire>>, NEW b \in BOOLEAN,
           store' = [list |-> AllRead(store.list), unread |-> 0, open |-> b]
    PROVE  HeardOk'
<1> DEFINE list == store.list
           new == AllRead(list)
<1>1. list \in Seq(Entries) /\ DOMAIN list = 1..Len(list) /\ Len(list) \in Nat
  BY DEF HeardOk
<1>2. \A i \in 1..Len(list) : list[i] \in Entries
  BY <1>1
<1>3. new = [i \in 1..Len(list) |-> [list[i] EXCEPT !.read = TRUE]]
  BY <1>1 DEF AllRead
<1>4. \A i \in 1..Len(list) : [list[i] EXCEPT !.read = TRUE] \in Entries
  BY <1>2 DEF Entries
<1> HIDE DEF list, new
<1>5. new \in Seq(Entries) /\ Len(new) = Len(list) /\ DOMAIN new = 1..Len(list)
  BY <1>1, <1>3, <1>4
<1>6. \A i \in 1..Len(list) : /\ new[i].event = list[i].event /\ new[i].to = list[i].to
                               /\ new[i].read = TRUE
  BY <1>2, <1>3 DEF Entries
<1>7. store'.list = new /\ store'.unread = 0 /\ store' \in [list : Seq(Entries), unread : Nat, open : BOOLEAN]
  BY <1>5 DEF new, list
<1>8. Cardinality(Unread(new)) = 0
  BY <1>5, <1>6, NothingUnread
<1>9. UnreadCounted'
  BY <1>7, <1>8, CountedMeans DEF CountedIn
<1>10. HeardOnce'
  <2>1. \A i, j \in 1..Len(list) :
          list[i].event = list[j].event /\ list[i].to = list[j].to => i = j
    BY <1>1 DEF HeardOk, HeardOnce, list
  <2> QED
    BY <1>5, <1>6, <1>7, <2>1 DEF HeardOnce
<1>11. NewerThanListed'
  <2>1. \A i \in 1..Len(list), j \in DOMAIN wire : Mark(list[i]) < Mark(wire[j])
    BY <1>1 DEF HeardOk, NewerThanListed, list
  <2> QED
    BY <1>5, <1>6, <1>7, <2>1 DEF NewerThanListed, Mark
<1> QED
  BY <1>5, <1>7, <1>9, <1>10, <1>11 DEF HeardOk, InOrder, Entries, Sent, Mark, list

(* What arrives is newer than all of the list, and older than the rest of  *)
(* the wire.                                                               *)
LEMMA UpdateKeeps ==
    ASSUME HeardOk, TabOk, HandleUpdate
    PROVE  HeardOk'
<1> DEFINE n == tab.socket.handlers
           e == wire[1]
           list == store.list
           new == Added(list, e, n)
<1>1. /\ wire # <<>> /\ wire' = Tail(wire) /\ due' = due
      /\ store' = [store EXCEPT !.list = Added(list, Head(wire), n), !.unread = @ + n]
  BY DEF HandleUpdate, TabStep
<1>2. n \in {0, 1}
  BY DEF TabOk, Tabs, Sockets
<1>3. /\ wire \in Seq(Sent) /\ Len(wire) \in Nat /\ Len(wire) > 0 /\ Head(wire) = e
      /\ e \in Sent
  BY <1>1 DEF HeardOk
<1>4. /\ wire' \in Seq(Sent) /\ Len(wire') = Len(wire) - 1
      /\ \A i \in 1..Len(wire') : wire'[i] = wire[i + 1]
  BY <1>1, <1>3
<1>18. /\ DOMAIN wire = 1..Len(wire) /\ DOMAIN wire' = 1..Len(wire') /\ Len(wire') \in Nat
       /\ \A i \in 1..Len(wire) : wire[i] \in Sent /\ Mark(wire[i]) \in Nat
  <2>1. \A i \in 1..Len(wire) : wire[i] \in Sent
    BY <1>3
  <2> QED
    BY <1>3, <1>4, <2>1, Marks
<1>5. list \in Seq(Entries) /\ Len(list) <= Kept /\ Len(list) \in Nat /\ store.unread \in Nat
  BY DEF HeardOk
<1>6. Entry(e) \in Entries /\ Entry(e).event = e.event /\ Entry(e).to = e.to
  BY <1>3 DEF Sent, Entries, Entry
<1>7. \A j \in 1..Len(wire') : Mark(wire'[j]) \in Nat /\ Mark(e) < Mark(wire'[j])
  <2>1. \A j \in 1..Len(wire') : j + 1 \in DOMAIN wire /\ 1 \in DOMAIN wire /\ 1 < j + 1
    BY <1>3, <1>4, <1>18
  <2>2. InOrder
    BY DEF HeardOk
  <2>3. \A j \in 1..Len(wire') : Mark(wire[1]) < Mark(wire[j + 1])
    BY <2>1, <2>2 DEF InOrder
  <2> QED
    BY <1>4, <1>18, <2>1, <2>3
<1>8. InOrder'
  <2> SUFFICES ASSUME NEW i \in 1..Len(wire'), NEW j \in 1..Len(wire'), i < j
               PROVE  Mark(wire'[i]) < Mark(wire'[j])
    BY <1>18 DEF InOrder, Mark
  <2>1. i + 1 \in DOMAIN wire /\ j + 1 \in DOMAIN wire /\ i + 1 < j + 1
    BY <1>3, <1>4, <1>18
  <2> QED
    BY <1>4, <2>1 DEF HeardOk, InOrder
<1>9. \A i \in 1..Len(list) : Mark(list[i]) < Mark(e) /\ list[i] \in Entries
  BY <1>3, <1>5 DEF HeardOk, NewerThanListed
<1>10. \A i, j \in 1..Len(list) :
         list[i].event = list[j].event /\ list[i].to = list[j].to => i = j
  BY <1>5 DEF HeardOk, HeardOnce
<1>11. UnreadCounted
  BY DEF HeardOk
<1>12. \A i \in 1..Len(list), j \in 1..Len(wire') : Mark(list[i]) < Mark(wire'[j])
  <2> SUFFICES ASSUME NEW i \in 1..Len(list), NEW j \in 1..Len(wire')
               PROVE  Mark(list[i]) < Mark(wire'[j])
    OBVIOUS
  <2>1. Mark(list[i]) \in Nat /\ Mark(list[i]) < Mark(e)
    BY <1>9, Marks
  <2>2. Mark(e) \in Nat /\ Mark(wire'[j]) \in Nat /\ Mark(e) < Mark(wire'[j])
    BY <1>3, <1>7, Marks
  <2> HIDE DEF e, list
  <2> QED
    BY <2>1, <2>2
<1>20. \A i \in 1..Len(list) : ~(list[i].event = e.event /\ list[i].to = e.to)
  <2> SUFFICES ASSUME NEW i \in 1..Len(list), list[i].event = e.event, list[i].to = e.to
               PROVE  FALSE
    OBVIOUS
  <2>1. list[i] \in Entries /\ Mark(list[i]) < Mark(e) /\ Mark(list[i]) \in Nat
    BY <1>9, Marks
  <2>2. e \in Sent /\ Mark(e) \in Nat
    BY <1>3, Marks
  <2> HIDE DEF e, list
  <2>3. Mark(list[i]) = Mark(e)
    BY <2>1, <2>2, Marks
  <2> QED
    BY <2>1, <2>2, <2>3
<1> HIDE DEF n, e, list, new
<1>13. new \in Seq(Entries) /\ Len(new) \in Nat /\ Len(new) <= Kept
  BY <1>2, <1>5, <1>6, AddedNone, AddedOnce, Bounds DEF new
<1>14. store' = [store EXCEPT !.list = new, !.unread = @ + n]
  BY <1>1, <1>3 DEF new
<1>15. /\ store' \in [list : Seq(Entries), unread : Nat, open : BOOLEAN]
       /\ store'.list = new /\ store'.unread = store.unread + n
  <2> DEFINE u == store.unread + n
  <2>1. u \in Nat
    BY <1>2, <1>5
  <2>2. store' = [store EXCEPT !.list = new, !.unread = u]
    BY <1>14
  <2>3. store \in [list : Seq(Entries), unread : Nat, open : BOOLEAN]
    BY DEF HeardOk
  <2> HIDE DEF u
  <2>4. /\ store' \in [list : Seq(Entries), unread : Nat, open : BOOLEAN]
        /\ store'.list = new /\ store'.unread = u
    BY <1>13, <2>1, <2>2, <2>3
  <2> QED
    BY <2>4 DEF u
<1>16. CASE n = 0
  <2>1. new = list
    BY <1>5, <1>16, AddedNone DEF new
  <2>2. HeardOnce'
    BY <1>5, <1>10, <1>15, <2>1 DEF HeardOnce
  <2>3. NewerThanListed'
    <3>1. DOMAIN store'.list = 1..Len(list)
      BY <1>5, <1>15, <2>1
    <3> QED
      BY <1>12, <1>15, <1>18, <2>1, <3>1 DEF NewerThanListed, Mark
  <2>4. UnreadCounted'
    BY <1>5, <1>11, <1>15, <1>16, <2>1, CountedMeans DEF CountedIn, list
  <2> QED
    BY <1>1, <1>4, <1>8, <1>13, <1>15, <2>2, <2>3, <2>4 DEF HeardOk, Entries, Sent
<1>17. CASE n = 1
  <2>1. /\ Len(new) = IF Len(list) < Kept THEN Len(list) + 1 ELSE Kept
        /\ new[1] = Entry(e)
        /\ \A i \in 2..Len(new) : new[i] = list[i - 1]
    BY <1>5, <1>6, <1>17, AddedOnce DEF new
  <2>2. DOMAIN new = 1..Len(new) /\ \A i \in 2..Len(new) : i - 1 \in 1..Len(list)
    BY <1>5, <1>13, <2>1
  <2>3. new[1].event = e.event /\ new[1].to = e.to /\ Mark(new[1]) = Mark(e)
    BY <1>6, <2>1 DEF Mark
  <2>4. HeardOnce'
    <3> SUFFICES ASSUME NEW i \in 1..Len(new), NEW j \in 1..Len(new),
                        new[i].event = new[j].event, new[i].to = new[j].to
                 PROVE  i = j
      BY <1>15, <2>2 DEF HeardOnce
    <3>1. ASSUME NEW k \in 2..Len(new)
          PROVE  ~(new[k].event = new[1].event /\ new[k].to = new[1].to)
      BY <1>20, <2>1, <2>2, <2>3, <3>1
    <3>2. CASE i = 1 \/ j = 1
      BY <1>13, <3>1, <3>2
    <3>3. CASE i # 1 /\ j # 1
      <4>1. i \in 2..Len(new) /\ j \in 2..Len(new)
        BY <1>13, <3>3
      <4>2. i - 1 = j - 1
        BY <1>10, <2>1, <2>2, <4>1
      <4> QED
        BY <4>1, <4>2
    <3> QED
      BY <3>2, <3>3
  <2>5. NewerThanListed'
    <3> SUFFICES ASSUME NEW i \in 1..Len(new), NEW j \in 1..Len(wire')
                 PROVE  Mark(new[i]) < Mark(wire'[j])
      BY <1>15, <1>18, <2>2 DEF NewerThanListed, Mark
    <3>1. CASE i = 1
      BY <1>7, <2>3, <3>1
    <3>2. CASE i # 1
      <4>1. i \in 2..Len(new)
        BY <1>13, <3>2
      <4> QED
        BY <1>12, <2>1, <2>2, <4>1
    <3> QED
      BY <3>1, <3>2
  <2>6. UnreadCounted'
    <3>1. /\ Cardinality(Unread(list)) \in Nat /\ Cardinality(Unread(new)) \in Nat
          /\ Cardinality(Unread(new)) <= Cardinality(Unread(list)) + 1
          /\ Len(list) < Kept => Cardinality(Unread(new)) = Cardinality(Unread(list)) + 1
      BY <1>5, <1>6, <1>17, UnreadAdded DEF new
    <3>2. CountedIn(store)
      BY <1>11, CountedMeans
    <3>3. /\ Cardinality(Unread(list)) <= store.unread
          /\ Len(list) < Kept => Cardinality(Unread(list)) = store.unread
      BY <3>2 DEF CountedIn, list
    <3>4. Len(new) < Kept => Len(list) < Kept
      BY <1>5, <2>1, Bounds
    <3>5. CountedIn(store')
      BY <1>5, <1>15, <1>17, <3>1, <3>3, <3>4 DEF CountedIn
    <3> QED
      BY <3>5, CountedMeans
  <2> QED
    BY <1>1, <1>4, <1>8, <1>13, <1>15, <2>4, <2>5, <2>6 DEF HeardOk, Entries, Sent
<1> QED
  BY <1>2, <1>16, <1>17

(* A new event goes to the end of the wire, if the socket is open, in one  *)
(* message or in two.                                                      *)
LEMMA MessagesAre ==
    ASSUME NEW event, NEW e \in Nat
    PROVE  LET new == Messages(e, event) IN
           /\ new \in Seq([event : {e}, to : Parties])
           /\ Len(new) \in {1, 2}
           /\ Len(new) = 2 => Mark(new[1]) < Mark(new[2])
<1>1. Message(e, "shipper") \in [event : {e}, to : Parties]
  BY DEF Message, Parties
<1>2. Message(e, "carrier") \in [event : {e}, to : Parties]
  BY DEF Message, Parties
<1>3. Mark(Message(e, "shipper")) = 2 * e /\ Mark(Message(e, "carrier")) = 2 * e + 1
  BY DEF Message, Mark
<1> HIDE DEF Mark
<1> DEFINE a == Message(e, "shipper")
           b == Message(e, "carrier")
<1>4. Messages(e, event) = <<a>> \/ Messages(e, event) = <<a, b>>
  BY DEF Messages
<1> HIDE DEF a, b
<1>5. <<a>> \in Seq([event : {e}, to : Parties]) /\ <<a, b>> \in Seq([event : {e}, to : Parties])
  BY <1>1, <1>2 DEF a, b
<1>6. Mark(a) < Mark(b)
  BY <1>3 DEF a, b
<1>7. CASE Messages(e, event) = <<a>>
  BY <1>5, <1>7
<1>8. CASE Messages(e, event) = <<a, b>>
  <2>1. Len(<<a, b>>) = 2 /\ <<a, b>>[1] = a /\ <<a, b>>[2] = b
    OBVIOUS
  <2> QED
    BY <1>5, <1>6, <1>8, <2>1
<1> QED
  BY <1>4, <1>7, <1>8

LEMMA TwoPlaces ==
    ASSUME NEW n \in Nat, NEW l \in 1..2, NEW i \in Nat, NEW j \in Nat, i > n, i < j, j <= n + l
    PROVE  l = 2 /\ i = n + 1 /\ j = n + 2
  OBVIOUS

LEMMA BroadcastKeeps ==
    ASSUME HeardOk, Logged, Len(due') = Len(due) + 1, store' = store, NEW event,
           wire' = wire \/ wire' = wire \o Messages(Len(due) + 1, event)
    PROVE  HeardOk'
<1> DEFINE e == Len(due) + 1
           new == Messages(e, event)
<1>1. Len(due) \in Nat
  BY DEF Logged
<1>2. 1..Len(due) \subseteq 1..Len(due') /\ e \in 1..Len(due')
  BY <1>1
<1>3. wire \in Seq(Sent)
  BY DEF HeardOk
<1>4. \A i \in 1..Len(wire) : wire[i] \in Sent /\ wire[i].event < e
  <2>1. \A i \in 1..Len(wire) : wire[i] \in Sent
    BY <1>3
  <2>2. \A m \in Sent : m.event \in 1..Len(due)
    BY DEF Sent
  <2> QED
    BY <1>1, <2>1, <2>2
<1>5. wire \in Seq(Sent') /\ Sent \subseteq Sent' /\ [event : {e}, to : Parties] \subseteq Sent'
  <2>1. Sent \subseteq Sent' /\ [event : {e}, to : Parties] \subseteq Sent'
    BY <1>2 DEF Sent
  <2> QED
    BY <1>3, <2>1, SeqMonotonic
<1>6. Entries \subseteq Entries'
  BY <1>2 DEF Entries
<1>7. store.list \in Seq(Entries) /\ store.list \in Seq(Entries')
  BY <1>6, SeqMonotonic DEF HeardOk
<1>8. store' \in [list : Seq(Entries'), unread : Nat, open : BOOLEAN]
  BY <1>7 DEF HeardOk
<1>9. \A i \in DOMAIN store.list : store.list[i] \in Entries /\ store.list[i].event < e
  <2>1. \A i \in 1..Len(store.list) : store.list[i] \in Entries
    BY <1>7
  <2> QED
    BY <1>1, <1>7, <2>1 DEF Entries
<1>10. HeardOnce' /\ UnreadCounted'
  BY CountedMeans DEF HeardOk, HeardOnce
<1>11. CASE wire' = wire
  BY <1>5, <1>8, <1>10, <1>11 DEF HeardOk, InOrder, NewerThanListed, Mark
<1>12. CASE wire' = wire \o new
  <2> DEFINE n == Len(wire)
  <2>1. /\ new \in Seq([event : {e}, to : Parties]) /\ Len(new) \in {1, 2}
        /\ Len(new) = 2 => Mark(new[1]) < Mark(new[2])
    <3>1. e \in Nat
      BY <1>1
    <3> HIDE DEF e
    <3> QED
      BY <3>1, MessagesAre
  <2> HIDE DEF e, new
  <2>2. new \in Seq(Sent') /\ \A i \in 1..Len(new) : new[i] \in Sent' /\ new[i].event = e
    <3>1. new \in Seq(Sent')
      BY <1>5, <2>1, SeqMonotonic
    <3> DEFINE S == [event : {e}, to : Parties]
    <3>2. \A m \in S : m.event = e
      OBVIOUS
    <3>3. new \in Seq(S)
      BY <2>1
    <3> HIDE DEF S
    <3>4. \A i \in 1..Len(new) : new[i] \in S
      BY <3>3
    <3> QED
      BY <3>1, <3>2, <3>4
  <2>3. /\ wire' \in Seq(Sent') /\ DOMAIN wire' = 1..n + Len(new) /\ n \in Nat
        /\ DOMAIN wire = 1..n
        /\ \A i \in 1..n + Len(new) : wire'[i] = IF i <= n THEN wire[i] ELSE new[i - n]
    <3>1. /\ wire \o new \in Seq(Sent') /\ Len(wire \o new) = n + Len(new)
          /\ \A i \in 1..n + Len(new) : (wire \o new)[i] = IF i <= n THEN wire[i] ELSE new[i - n]
      BY <1>5, <2>2, ConcatProperties
    <3> QED
      BY <1>5, <1>12, <3>1
  <2>4. \A m \in Sent' \cup Entries', o \in Sent' \cup Entries' :
          m.event < o.event => Mark(m) < Mark(o)
    <3>1. \A m \in Sent' \cup Entries' : m.event \in Nat /\ m.to \in Parties
      BY DEF Sent, Entries
    <3> QED
      BY <3>1 DEF Mark
  <2>5. InOrder'
    <3> SUFFICES ASSUME NEW i \in 1..n + Len(new), NEW j \in 1..n + Len(new), i < j
                 PROVE  Mark(wire'[i]) < Mark(wire'[j])
      BY <2>3 DEF InOrder, Mark
    <3>1. CASE j <= n
      <4>1. i \in DOMAIN wire /\ j \in DOMAIN wire /\ wire'[i] = wire[i] /\ wire'[j] = wire[j]
        BY <2>1, <2>3, <3>1
      <4> QED
        BY <4>1 DEF HeardOk, InOrder
    <3>2. CASE i <= n /\ ~(j <= n)
      <4>1. /\ i \in 1..n /\ j - n \in 1..Len(new)
            /\ wire'[i] = wire[i] /\ wire'[j] = new[j - n]
        BY <2>1, <2>3, <3>2
      <4>2. wire[i] \in Sent' /\ wire[i].event < e /\ new[j - n] \in Sent' /\ new[j - n].event = e
        BY <1>4, <1>5, <2>2, <4>1
      <4> QED
        BY <2>4, <4>1, <4>2
    <3>3. CASE ~(i <= n)
      <4> HIDE DEF n
      <4>1. Len(new) = 2 /\ i - n = 1 /\ j - n = 2 /\ ~(j <= n)
        <5>1. PICK l \in 1..2 : l = Len(new)
          BY <2>1
        <5>2. n \in Nat /\ i \in Nat /\ j \in Nat /\ i > n /\ i < j /\ j <= n + l
          BY <2>3, <3>3, <5>1
        <5>3. l = 2 /\ i = n + 1 /\ j = n + 2
          BY <5>1, <5>2, TwoPlaces
        <5> QED
          BY <5>1, <5>2, <5>3
      <4>2. wire'[i] = new[1] /\ wire'[j] = new[2]
        BY <2>3, <3>3, <4>1
      <4> QED
        BY <2>1, <4>1, <4>2
    <3> QED
      BY <3>1, <3>2, <3>3
  <2>6. NewerThanListed'
    <3> SUFFICES ASSUME NEW i \in DOMAIN store.list, NEW j \in 1..n + Len(new)
                 PROVE  Mark(store.list[i]) < Mark(wire'[j])
      BY <2>3 DEF NewerThanListed, Mark
    <3>1. CASE j <= n
      <4>1. j \in DOMAIN wire /\ wire'[j] = wire[j]
        BY <2>1, <2>3, <3>1
      <4> QED
        BY <4>1 DEF HeardOk, NewerThanListed
    <3>2. CASE ~(j <= n)
      <4>1. j - n \in 1..Len(new) /\ wire'[j] = new[j - n]
        BY <2>1, <2>3, <3>2
      <4>2. store.list[i] \in Entries' /\ store.list[i].event < e
        BY <1>6, <1>9
      <4> QED
        BY <2>2, <2>4, <4>1, <4>2
    <3> QED
      BY <3>1, <3>2
  <2> QED
    BY <1>8, <1>10, <2>3, <2>5, <2>6 DEF HeardOk
<1> QED
  BY <1>11, <1>12

LEMMA HeardKept ==
    ASSUME HeardOk, TabOk, BrowserStep, due' = due
    PROVE  HeardOk'
<1>1. CASE SignIn \/ SignOut \/ SetUser \/ Expire \/ RefreshToken \/ HandleConnection \/ Disconnect
             \/ Reconnect
  <2>1. store' = store /\ (wire' = wire \/ wire' = <<>>)
    BY <1>1 DEF SignIn, SignOut, SetUser, Expire, RefreshToken, HandleConnection, Disconnect,
                Reconnect, Wire
  <2> QED
    BY <2>1, WireCut
<1>2. CASE Reload
  BY <1>2, ListEmptied DEF Reload
<1>3. CASE HandleUpdate
  BY <1>3, UpdateKeeps
<1>4. CASE HandleOpen
  <2>1. wire' = wire
    BY <1>4 DEF HandleOpen
  <2>2. CASE ~store.open /\ store.unread > 0
    BY <1>4, <2>1, <2>2, AllReadKeeps DEF HandleOpen
  <2>3. CASE ~(~store.open /\ store.unread > 0)
    <3>1. store' = [store EXCEPT !.open = ~store.open]
      BY <1>4, <2>3 DEF HandleOpen
    <3>2. /\ store'.list = store.list /\ store'.unread = store.unread
          /\ store' \in [list : Seq(Entries), unread : Nat, open : BOOLEAN]
      BY <3>1 DEF HeardOk
    <3>3. UnreadCounted'
      BY <3>2, CountedMeans DEF CountedIn, HeardOk
    <3> QED
      BY <2>1, <3>2, <3>3 DEF HeardOk, InOrder, NewerThanListed, HeardOnce, Entries, Sent, Mark
  <2> QED
    BY <2>2, <2>3
<1>5. CASE ClearAll
  <2>1. /\ wire' = wire /\ store.open \in BOOLEAN
        /\ store' = [store EXCEPT !.list = <<>>, !.unread = 0]
    BY <1>5 DEF ClearAll, HeardOk
  <2>2. store' = [list |-> <<>>, unread |-> 0, open |-> store.open]
    BY <2>1 DEF HeardOk
  <2> QED
    BY <2>1, <2>2, ListEmptied
<1> QED
  BY <1>1, <1>2, <1>3, <1>4, <1>5 DEF BrowserStep

LEMMA SocketStep ==
    ASSUME SocketInv, Logged, [Next]_vars
    PROVE  SocketInv'
<1>0. /\ TabOk /\ HeardOk
      /\ (TabOk /\ HeardOk)' => SocketInv'
  BY SocketParts DEF SocketInv, SocketTyped, TabOk, Tabs, HeardOk
<1>1. ASSUME UNCHANGED <<due, tab, wire, store>> PROVE SocketInv'
  BY <1>0, <1>1, WireCut DEF TabOk, OneHandler
<1>2. CASE UNCHANGED vars
  BY <1>1, <1>2 DEF vars, tabVars
<1>3. ASSUME NEW event \in ShipmentEvents, Emit(event) PROVE SocketInv'
  <2>1. /\ wire' = wire \/ wire' = wire \o Messages(Len(due) + 1, event)
        /\ UNCHANGED <<tab, store>>
    BY <1>3 DEF Emit, Broadcast
  <2>2. Len(due') = Len(due) + 1
    BY <1>3, EmitLogs
  <2>3. HeardOk'
    BY <1>0, <2>1, <2>2, BroadcastKeeps
  <2> QED
    BY <1>0, <2>1, <2>3 DEF TabOk, OneHandler
<1>4. CASE HookStep
  BY <1>1, <1>4, HookStepTouches
<1>5. CASE \E e \in Events : SendSafe(e)
  BY <1>1, <1>5 DEF SendSafe, tabVars
<1>6. CASE BrowserStep
  BY <1>0, <1>6, BrowserStepTouches, TabKept, HeardKept
<1>7. CASE Crash
  BY <1>1, <1>7 DEF Crash
<1> QED
  BY <1>2, <1>3, <1>4, <1>5, <1>6, <1>7, StepKinds

-----------------------------------------------------------------------------
LEMMA InvInit == Init => DeliveriesInv
<1> SUFFICES ASSUME Init PROVE DeliveriesInv
  OBVIOUS
<1>1. Logged
  BY Bounds DEF Init, Logged
<1>2. HooksInv
  BY Bounds DEF Init, HooksInv, HooksTyped, AtItsAttempt, OneLoop, Posted, AcknowledgedOrTried, Trying
<1>3. MailsInv
  BY DEF Init, MailsInv, EachPartyIsWritten
<1>4. TabOk
  BY DEF Init, TabOk, Tabs, Sockets, NoSocket, OneHandler
<1>5. HeardOk
  <2>1. store = [list |-> <<>>, unread |-> 0, open |-> FALSE] /\ wire = <<>>
    BY DEF Init
  <2>2. Cardinality(Unread(store.list)) = 0
    BY <2>1, NothingUnread
  <2>3. UnreadCounted
    BY <2>1, <2>2, CountedMeans DEF CountedIn
  <2> QED
    BY <2>1, <2>3, Bounds DEF HeardOk, InOrder, NewerThanListed, HeardOnce
<1> QED
  BY <1>1, <1>2, <1>3, <1>4, <1>5, SocketParts DEF DeliveriesInv

(* The three invariants hold of all behaviours, for any hooks and bounds.  *)
THEOREM DeliveriesInvariant == Spec => []DeliveriesInv
<1>1. DeliveriesInv /\ [Next]_vars => DeliveriesInv'
  BY StepLogs, HooksStep, MailsStep, SocketStep DEF DeliveriesInv
<1> QED
  BY <1>1, InvInit, PTL DEF Spec

(* A hook is left alone once it has answered, is posted an event at most   *)
(* Attempts times, and without a restart no fewer unless it has answered:  *)
(* deliverWebhookWithRetry, for any hooks, events and attempts.            *)
THEOREM HooksAreTried == Spec => []AcknowledgedOrTried
<1>1. DeliveriesInv => AcknowledgedOrTried
  BY DEF DeliveriesInv, HooksInv
<1> QED
  BY <1>1, DeliveriesInvariant, PTL

(* Whichever mails fail, what was tried and what is left are together the  *)
(* letters of the event: sendSafe silences nobody and repeats nothing.     *)
THEOREM EveryPartyIsWritten == Spec => []EachPartyIsWritten
<1>1. DeliveriesInv => EachPartyIsWritten
  BY DEF DeliveriesInv, MailsInv
<1> QED
  BY <1>1, DeliveriesInvariant, PTL

(* However often the effect of useShipmentSocket is run again and the      *)
(* connection is lost, an event is in the notification list once for each  *)
(* party, shipper or carrier, that the user is.                            *)
THEOREM NothingHeardTwice == Spec => []HeardOnce
<1>1. DeliveriesInv => HeardOnce
  BY DEF DeliveriesInv, SocketInv
<1> QED
  BY <1>1, DeliveriesInvariant, PTL

(* The number on the bell counts the unread entries of the list and, once  *)
(* it is full, those that were pushed out.                                 *)
THEOREM BellCounts == Spec => []UnreadCounted
<1>1. DeliveriesInv => UnreadCounted
  BY DEF DeliveriesInv, SocketInv
<1> QED
  BY <1>1, DeliveriesInvariant, PTL

-----------------------------------------------------------------------------
(* The safety half of EventsAreSettled: work that has begun only gets less. *)
(* An event is looked up as it is emitted, and then handed over once; a    *)
(* loop moves from one post to the wait after it and on to the next, of    *)
(* which there are Attempts; and the letters of an event only go out.      *)
Place(t) == 2 * t.attempt + (IF t.waiting THEN 1 ELSE 0)

Follows(u, t) == u.hook = t.hook /\ u.event = t.event /\ Place(u) = Place(t) + 1

TasksMoveOn ==
    \A u \in tasks' :
        \/ u \in tasks
        \/ u.attempt = 1 /\ ~u.waiting /\ u.event \in lookups \ lookups'
        \/ \E t \in tasks \ tasks' : Follows(u, t)

LessLeft ==
    /\ \A e \in lookups' : e \in lookups \/ e > Len(due)
    /\ TasksMoveOn
    /\ \A u \in tasks' : Place(u) \in 2..2 * Attempts
    /\ \A e \in 1..Len(due) : letters'[e] = letters[e] \/ Len(letters'[e]) < Len(letters[e])

WorkRunsOut == [][LessLeft]_vars

LEMMA PostMovesOn ==
    ASSUME HooksTyped, NEW t \in tasks, Post(t) \/ Retry(t)
    PROVE  TasksMoveOn
<1>1. t \in Tasks
  BY DEF HooksTyped
<1>2. CASE Post(t)
  <2> DEFINE next == [t EXCEPT !.waiting = TRUE]
  <2>1. /\ next # t /\ next.hook = t.hook /\ next.event = t.event
        /\ Place(next) = Place(t) + 1
    BY <1>1, <1>2, Bounds DEF Tasks, Place, Post
  <2>2. tasks' = tasks \ {t} \/ tasks' = (tasks \ {t}) \cup {next}
    BY <1>2 DEF Post, Remaining
  <2> HIDE DEF next
  <2> QED
    BY <2>1, <2>2 DEF TasksMoveOn, Follows
<1>3. CASE Retry(t)
  <2>1. /\ Retried(t) # t /\ Retried(t).hook = t.hook /\ Retried(t).event = t.event
        /\ Place(Retried(t)) = Place(t) + 1
    <3>1. t.attempt \in Nat /\ t.waiting = TRUE
      BY <1>1, <1>3, Bounds DEF Tasks, Retry
    <3>2. /\ Retried(t).hook = t.hook /\ Retried(t).event = t.event
          /\ Retried(t).attempt = t.attempt + 1 /\ Retried(t).waiting = FALSE
      BY <1>1 DEF Tasks, Retried
    <3> QED
      BY <3>1, <3>2 DEF Place
  <2>2. tasks' = (tasks \ {t}) \cup {Retried(t)}
    BY <1>3 DEF Retry
  <2> QED
    BY <2>1, <2>2 DEF TasksMoveOn, Follows
<1> QED
  BY <1>2, <1>3

LEMMA LettersGoOut ==
    ASSUME MailsInv, NEW e \in Events, SendSafe(e), NEW x \in Events
    PROVE  letters'[x] = letters[x] \/ Len(letters'[x]) < Len(letters[x])
<1>1. PICK l : l = letters[e]
  OBVIOUS
<1>2. l \in Seq(Parties) /\ l # <<>> /\ letters' = [letters EXCEPT ![e] = Tail(l)]
  BY <1>1 DEF MailsInv, SendSafe
<1>3. Len(Tail(l)) < Len(l)
  BY <1>2
<1> QED
  BY <1>1, <1>2, <1>3 DEF MailsInv

LEMMA StepLeavesLess ==
    ASSUME DeliveriesInv, DeliveriesInv', Next
    PROVE  LessLeft
<1>0. HooksTyped /\ MailsInv /\ Logged /\ 1..Len(due) \subseteq Events
  BY Bounds DEF DeliveriesInv, HooksInv, Logged, Events
<1>1. ASSUME NEW u \in tasks' PROVE Place(u) \in 2..2 * Attempts
  <2>1. /\ u.attempt \in Nat /\ u.attempt >= 1 /\ u.attempt <= Attempts /\ Attempts \in Nat
        /\ u.waiting \in BOOLEAN /\ (u.waiting => u.attempt < Attempts)
    <3>1. (tasks \subseteq Tasks)' /\ \A t \in tasks' : t.waiting => t.attempt < Attempts
      BY DEF DeliveriesInv, HooksInv, HooksTyped, AtItsAttempt
    <3>2. u \in Tasks
      BY <3>1
    <3> QED
      BY <3>1, <3>2, Bounds DEF Tasks
  <2> QED
    BY <2>1 DEF Place
<1>2. CASE \E event \in ShipmentEvents : Emit(event)
  BY <1>0, <1>1, <1>2 DEF Emit, LessLeft, TasksMoveOn, MailsInv, Logged
<1>3. CASE \E h \in Hooks : RegisterHook(h) \/ RemoveHook(h)
  BY <1>1, <1>3 DEF RegisterHook, RemoveHook, mailVars, LessLeft, TasksMoveOn
<1>4. CASE \E e \in Events : FindHooks(e)
  BY <1>1, <1>4 DEF FindHooks, mailVars, LessLeft, TasksMoveOn
<1>5. CASE \E t \in tasks : Post(t) \/ Retry(t)
  <2>1. TasksMoveOn
    BY <1>0, <1>5, PostMovesOn
  <2>2. UNCHANGED <<lookups, letters>>
    BY <1>5 DEF Post, Retry, mailVars
  <2> QED
    BY <1>1, <2>1, <2>2 DEF LessLeft
<1>6. CASE \E e \in Events : SendSafe(e)
  BY <1>0, <1>1, <1>6, LettersGoOut DEF SendSafe, hookVars, LessLeft, TasksMoveOn
<1>7. CASE BrowserStep
  BY <1>0, <1>1, <1>7, BrowserStepTouches DEF LessLeft, TasksMoveOn
<1>8. CASE Crash
  <2>1. \A e \in 1..Len(due) : letters'[e] = <<>> /\ letters[e] \in Seq(Parties)
    BY <1>0, <1>8 DEF Crash, MailsInv
  <2>2. \A e \in 1..Len(due) : letters'[e] = letters[e] \/ Len(letters'[e]) < Len(letters[e])
    BY <2>1
  <2> QED
    BY <1>1, <1>8, <2>2 DEF Crash, LessLeft, TasksMoveOn
<1> QED
  BY <1>2, <1>3, <1>4, <1>5, <1>6, <1>7, <1>8, StepKinds DEF HookStep

(* Whatever is emitted, registered and lost meanwhile, webhooks and mails  *)
(* never have more left to do of the events there are than before.         *)
THEOREM NothingIsAddedLater == Spec => WorkRunsOut
<1>1. DeliveriesInv /\ DeliveriesInv' /\ [Next]_vars => [LessLeft]_vars
  BY StepLeavesLess
<1> QED
  BY <1>1, DeliveriesInvariant, PTL DEF Spec, WorkRunsOut
=============================================================================
