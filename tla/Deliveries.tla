----------------------------- MODULE Deliveries -----------------------------
(***************************************************************************)
(* What becomes of the events ShipmentsService emits for the shipments of  *)
(* a shipper: WebhooksService posts them to his hooks, they are mailed by  *)
(* NotificationsService and sent by NotificationsGateway to the browsers   *)
(* of the parties, where useShipmentSocket puts them into the store.       *)
(*                                                                         *)
(* The three listeners share nothing but the event, and none waits for     *)
(* another: a behaviour follows one of them.  MaxEvents bounds the events, *)
(* MaxSignals what else happens to the browser and its connection.         *)
(***************************************************************************)
EXTENDS Naturals, FiniteSets, SequencesExt

CONSTANTS
    Hooks,       \* hooks the shipper may register
    Attempts,    \* posts of one event to one hook
    Reconnects,  \* reconnectionAttempts of the socket
    Kept,        \* notifications the store keeps
    MaxEvents, MaxSignals

ASSUME DeliveryBounds ==
    /\ {Attempts, Reconnects, Kept, MaxEvents, MaxSignals} \subseteq Nat
    /\ Attempts > 0 /\ Kept > 0

VARIABLES
    follow,   \* the listener this behaviour follows
    due,      \* of each event emitted, the parties to be written to
    hooks, lookups, tasks, posts, acked,   \* webhooks
    letters, tried,                       \* mails
    tab,      \* the shipper's browser: user, token, socket
    wire,     \* messages sent to the socket and not yet received
    store,    \* notification store: the list, the unread count, the bell
    signals

hookVars == <<hooks, lookups, tasks, posts, acked>>
mailVars == <<letters, tried>>
tabVars == <<tab, wire, store, signals>>
vars == <<follow, due, hookVars, mailVars, tabVars>>

Events == 1..MaxEvents
Deliveries == Hooks \X Events

(* The socket of the browser; auth is the token it was created with.       *)
NoSocket == [state |-> "none", auth |-> "none", tries |-> 0, handlers |-> 0]

Init ==
    /\ follow \in {"webhooks", "mails", "socket"}
    /\ due = <<>>
    /\ hooks = {} /\ lookups = {} /\ tasks = {} /\ acked = {}
    /\ posts = [d \in Deliveries |-> 0]
    /\ letters = [e \in Events |-> <<>>] /\ tried = [e \in Events |-> <<>>]
    /\ tab = [user |-> FALSE, token |-> "none", socket |-> NoSocket, subscribed |-> FALSE]
    /\ wire = <<>>
    /\ store = [list |-> <<>>, unread |-> 0, open |-> FALSE]
    /\ signals = 0

-----------------------------------------------------------------------------
Kinds == {"created", "accepted", "in_transit", "delivered", "completed", "disputed",
          "dispute_resolved", "cancelled"}

(* The carrier of the shipment, as its row has him by then: nobody yet,    *)
(* somebody else, or the shipper, an administrator who took it himself.    *)
Carriers == {"nobody", "another", "shipper"}

(* Who is written to, in this order.  The first four kinds are for both    *)
(* parties, or for none of them.                                           *)
LettersToBoth(event) ==
    CASE event.kind = "completed" -> <<"carrier", "shipper">>
      [] event.kind = "in_transit" -> <<"shipper">>
      [] OTHER -> <<"shipper", "carrier">>

LettersToWhoIsThere(event) ==
    IF event.carrier # "nobody" THEN <<"shipper", "carrier">> ELSE <<"shipper">>

LettersOf(event) ==
    CASE event.kind = "created" -> <<>>
      [] event.kind \in {"accepted", "in_transit", "delivered", "completed"} ->
           IF event.carrier # "nobody" THEN LettersToBoth(event) ELSE <<>>
      [] OTHER -> LettersToWhoIsThere(event)

(* The event is sent to the room of the shipper and, unless it is new, to  *)
(* that of the carrier.  This browser is the shipper's, and is in his room *)
(* while its socket is open: twice addressed if he is both.                *)
Message(e, party) == [event |-> e, to |-> party]

Messages(e, event) ==
    IF event.kind # "created" /\ event.carrier = "shipper"
    THEN <<Message(e, "shipper"), Message(e, "carrier")>>
    ELSE <<Message(e, "shipper")>>

Broadcast(e, event) ==
    IF tab.socket.state = "open" THEN wire \o Messages(e, event) ELSE wire

(* The emitter calls each listener, which runs to its first await.  Events *)
(* come in any order: handlers overlap, one that fails has told nobody of  *)
(* what it saved, and the acceptance of a bid emits none.                  *)
Emit(event) ==
    /\ Len(due) < MaxEvents
    /\ LET e == Len(due) + 1
           parties == IF follow = "mails" THEN LettersOf(event) ELSE <<>>
       IN /\ due' = Append(due, parties)
          /\ letters' = [letters EXCEPT ![e] = parties]
          /\ lookups' = IF follow = "webhooks" /\ event.kind # "created"
                        THEN lookups \cup {e} ELSE lookups
          /\ wire' = IF follow = "socket" THEN Broadcast(e, event) ELSE wire
    /\ UNCHANGED <<follow, hooks, tasks, posts, acked, tried, tab, store, signals>>

-----------------------------------------------------------------------------
(* Webhooks. *)
RegisterHook(h) ==
    /\ follow = "webhooks" /\ h \notin hooks
    /\ hooks' = hooks \cup {h}
    /\ UNCHANGED <<follow, due, lookups, tasks, posts, acked, mailVars, tabVars>>

RemoveHook(h) ==
    /\ h \in hooks
    /\ hooks' = hooks \ {h}
    /\ UNCHANGED <<follow, due, lookups, tasks, posts, acked, mailVars, tabVars>>

(* deliverShipmentStatusChange looks the hooks up and delivers to all at   *)
(* once; or the query throws, and the event is delivered to none.          *)
FindHooks(e) ==
    /\ e \in lookups
    /\ lookups' = lookups \ {e}
    /\ \/ tasks' = tasks \cup [hook : hooks, event : {e}, attempt : {1}, waiting : {FALSE}]
       \/ UNCHANGED tasks
    /\ UNCHANGED <<follow, due, hooks, posts, acked, mailVars, tabVars>>

(* Mutant: the timer of the delay never resolves its promise. *)
NeverRetried(t) == t

Retried(t) == [t EXCEPT !.attempt = @ + 1, !.waiting = FALSE]

(* Mutant: the loop ends one attempt early. *)
RemainingShort(t, ok) ==
    IF ok \/ t.attempt = Attempts - 1 THEN {} ELSE {[t EXCEPT !.waiting = TRUE]}

(* What is left of a task after a post: nothing when the answer is good or *)
(* this was the last attempt.                                              *)
Remaining(t, ok) ==
    IF ok \/ t.attempt = Attempts THEN {} ELSE {[t EXCEPT !.waiting = TRUE]}

(* postWebhook: a hook that answers with an error, or not in time, may     *)
(* have got the post as well.                                              *)
Post(t) ==
    /\ t \in tasks /\ ~t.waiting
    /\ LET d == <<t.hook, t.event>> IN
       \E ok \in BOOLEAN :
          /\ posts' = [posts EXCEPT ![d] = @ + 1]
          /\ acked' = IF ok THEN acked \cup {d} ELSE acked
          /\ tasks' = (tasks \ {t}) \cup Remaining(t, ok)
    /\ UNCHANGED <<follow, due, hooks, lookups, mailVars, tabVars>>

(* delay, then the next round of the loop.                                 *)
Retry(t) ==
    /\ t \in tasks /\ t.waiting
    /\ tasks' = (tasks \ {t}) \cup {Retried(t)}
    /\ UNCHANGED <<follow, due, hooks, lookups, posts, acked, mailVars, tabVars>>

-----------------------------------------------------------------------------
(* Mails. *)

(* Mutant: a mail that fails ends the handler. *)
SendOrThrow(e) ==
    /\ letters[e] # <<>>
    /\ tried' = [tried EXCEPT ![e] = Append(@, Head(letters[e]))]
    /\ letters' = [letters EXCEPT ![e] = Tail(@)] \/ letters' = [letters EXCEPT ![e] = <<>>]
    /\ UNCHANGED <<follow, due, hookVars, tabVars>>

(* sendSafe: the mailer takes the letter or throws, and the next follows.  *)
SendSafe(e) ==
    /\ letters[e] # <<>>
    /\ tried' = [tried EXCEPT ![e] = Append(@, Head(letters[e]))]
    /\ letters' = [letters EXCEPT ![e] = Tail(@)]
    /\ UNCHANGED <<follow, due, hookVars, tabVars>>

-----------------------------------------------------------------------------
(* The browser.  A signal is something that happens to its tab.            *)
Signal == follow = "socket" /\ signals < MaxSignals /\ signals' = signals + 1
TabStep == UNCHANGED <<follow, due, hookVars, mailVars>>

(* Mutant: the effect leaves its handler on the socket. *)
Uncleaned(socket) == socket

(* The cleanup of the effect takes its handler off the socket.             *)
Cleaned(socket) ==
    IF tab.subscribed THEN [socket EXCEPT !.handlers = @ - 1] ELSE socket

(* connectSocket: an open socket is used again, any other is replaced.     *)
Connected(socket, token) ==
    IF socket.state = "open" THEN socket
    ELSE [NoSocket EXCEPT !.state = "connecting", !.auth = token]

(* useShipmentSocket's effect, run again whenever the user changes.        *)
Effect(user, token) ==
    LET old == Cleaned(tab.socket) IN
    tab' = IF ~user
           THEN [user |-> FALSE, token |-> token, socket |-> NoSocket, subscribed |-> FALSE]
           ELSE IF token = "none"
           THEN [user |-> TRUE, token |-> token, socket |-> old, subscribed |-> FALSE]
           ELSE LET s == Connected(old, token) IN
                [user |-> TRUE, token |-> token, subscribed |-> TRUE,
                 socket |-> [s EXCEPT !.handlers = @ + 1]]

Wire == wire' = IF tab'.socket.state = "open" THEN wire ELSE <<>>

SignIn == Signal /\ ~tab.user /\ Effect(TRUE, "fresh") /\ Wire /\ UNCHANGED store /\ TabStep
SignOut == Signal /\ tab.user /\ Effect(FALSE, "none") /\ Wire /\ UNCHANGED store /\ TabStep

(* Saving the profile, or fetching the user, puts a new object there.      *)
SetUser == Signal /\ tab.user /\ Effect(TRUE, tab.token) /\ Wire /\ UNCHANGED store /\ TabStep

(* A reload empties the stores; the user is fetched with the cookie, while *)
(* the token in memory is gone.                                            *)
Reload ==
    /\ Signal /\ tab.user
    /\ tab' = [user |-> TRUE, token |-> "none", socket |-> NoSocket, subscribed |-> FALSE]
    /\ wire' = <<>>
    /\ store' = [list |-> <<>>, unread |-> 0, open |-> FALSE]
    /\ TabStep

(* The token runs out; apiClient refreshes it without a change of user.    *)
Expire ==
    /\ Signal /\ tab.token = "fresh"
    /\ tab' = [tab EXCEPT !.token = "stale", !.socket.auth = IF @ = "fresh" THEN "stale" ELSE @]
    /\ UNCHANGED <<wire, store>> /\ TabStep

RefreshToken ==
    /\ Signal /\ tab.user /\ tab.token # "fresh"
    /\ tab' = [tab EXCEPT !.token = "fresh"]
    /\ UNCHANGED <<wire, store>> /\ TabStep

(* handleConnection verifies the token the socket was created with.  A     *)
(* socket the server disconnects does not come back by itself.             *)
HandleConnection ==
    /\ tab.socket.state = "connecting"
    /\ tab' = IF tab.socket.auth = "fresh"
              THEN [tab EXCEPT !.socket.state = "open", !.socket.tries = 0]
              ELSE [tab EXCEPT !.socket.state = "refused"]
    /\ UNCHANGED <<wire, store, signals>> /\ TabStep

Disconnect ==
    /\ Signal /\ tab.socket.state \in {"open", "connecting"}
    /\ tab' = [tab EXCEPT !.socket.state = "down"]
    /\ wire' = <<>>
    /\ UNCHANGED store /\ TabStep

Reconnect ==
    /\ tab.socket.state = "down" /\ tab.socket.tries < Reconnects
    /\ tab' = [tab EXCEPT !.socket.state = "connecting", !.socket.tries = @ + 1]
    /\ UNCHANGED <<wire, store, signals>> /\ TabStep

(* addNotification, once for each of the n handlers on the socket: the     *)
(* newest entries of the list that results are kept.                       *)
Entry(m) == [event |-> m.event, to |-> m.to, read |-> FALSE]

Added(list, m, n) ==
    LET l == [i \in 1..n |-> Entry(m)] \o list
    IN  SubSeq(l, 1, IF Len(l) < Kept THEN Len(l) ELSE Kept)

HandleUpdate ==
    /\ wire # <<>>
    /\ wire' = Tail(wire)
    /\ store' = LET n == tab.socket.handlers
                IN [store EXCEPT !.list = Added(@, Head(wire), n), !.unread = @ + n]
    /\ UNCHANGED <<tab, signals>> /\ TabStep

AllRead(list) == [i \in DOMAIN list |-> [list[i] EXCEPT !.read = TRUE]]

(* The bell: opening it with something unread marks everything as read.    *)
HandleOpen ==
    /\ Signal
    /\ store' = IF ~store.open /\ store.unread > 0
                THEN [list |-> AllRead(store.list), unread |-> 0, open |-> TRUE]
                ELSE [store EXCEPT !.open = ~@]
    /\ UNCHANGED <<tab, wire>> /\ TabStep

(* Mutant: the count is forgotten. *)
ClearList ==
    /\ Signal /\ store.open
    /\ store' = [store EXCEPT !.list = <<>>]
    /\ UNCHANGED <<tab, wire>> /\ TabStep

ClearAll ==
    /\ Signal /\ store.open
    /\ store' = [store EXCEPT !.list = <<>>, !.unread = 0]
    /\ UNCHANGED <<tab, wire>> /\ TabStep

-----------------------------------------------------------------------------
(* The process stops: what it had not posted or mailed is forgotten.  One  *)
(* restart is enough.                                                      *)
Crash ==
    /\ follow # "socket" /\ signals = 0 /\ signals' = 1
    /\ lookups' = {} /\ tasks' = {} /\ letters' = [e \in Events |-> <<>>]
    /\ UNCHANGED <<follow, due, hooks, posts, acked, tried, tab, wire, store>>

Deliver ==
    \/ \E e \in Events : FindHooks(e) \/ SendSafe(e)
    \/ \E t \in tasks : Post(t) \/ Retry(t)
    \/ HandleUpdate

Next ==
    \/ \E event \in [kind : Kinds, carrier : Carriers] : Emit(event)
    \/ Deliver
    \/ \E h \in Hooks : RegisterHook(h) \/ RemoveHook(h)
    \/ SignIn \/ SignOut \/ SetUser \/ Reload \/ Expire \/ RefreshToken
    \/ HandleConnection \/ Disconnect \/ Reconnect
    \/ HandleOpen \/ ClearAll
    \/ Crash

(* The process goes on with the work it has begun.                         *)
Spec == Init /\ [][Next]_vars /\ WF_vars(Deliver)

-----------------------------------------------------------------------------
Trying(d) == \E t \in tasks : t.hook = d[1] /\ t.event = d[2]

(* A hook is left alone once it has answered, is posted an event at most   *)
(* Attempts times, and without a restart no fewer unless it has answered.  *)
AcknowledgedOrTried ==
    \A d \in Deliveries :
        /\ posts[d] <= Attempts
        /\ d \in acked => ~Trying(d)
        /\ posts[d] \in 1..Attempts - 1 => d \in acked \/ Trying(d) \/ signals > 0

(* A mail that cannot be sent keeps no other party from being written to,  *)
(* and no party is written to twice.                                       *)
EachPartyIsWritten ==
    follow = "mails" /\ signals = 0 =>
        \A e \in DOMAIN due : tried[e] \o letters[e] = due[e]

(* However often the user changes and the connection comes and goes, an    *)
(* event is entered in the list once for each party he is to it: once, and *)
(* twice if he is the shipper and the carrier.                             *)
HeardOnce ==
    \A i, j \in DOMAIN store.list :
        /\ store.list[i].event = store.list[j].event
        /\ store.list[i].to = store.list[j].to
        => i = j

(* The number on the bell counts the unread entries, and those among them  *)
(* the list had no room for.                                               *)
UnreadCounted ==
    LET shown == Cardinality({i \in DOMAIN store.list : ~store.list[i].read}) IN
    shown <= store.unread /\ (Len(store.list) < Kept => shown = store.unread)

(* Posting and mailing come to an end for every event.                     *)
EventsAreSettled == []<>(lookups = {} /\ tasks = {} /\ \A e \in Events : letters[e] = <<>>)
=============================================================================
