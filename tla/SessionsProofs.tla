--------------------------- MODULE SessionsProofs ---------------------------
(***************************************************************************)
(* Proofs about the calls on one account, for any number of call slots,    *)
(* calls and passwords: joined refreshes are always answered, a refresh    *)
(* succeeds or is refused only for a reason some moment of it gave, and a  *)
(* used reset link stays dead.                                             *)
(***************************************************************************)
EXTENDS Sessions, TLAPS

(* Full records, of the account and of a call under way.                   *)
Fields == {"registered", "password", "active", "role", "email", "session", "link", "linkDue"}
CallFields == {"op", "by", "pc", "password", "token", "copy", "retried"}
Full(x) == DOMAIN x = CallFields

(* The statements each operation passes through.                           *)
RefreshPcs ==
    {"refresh", "sent", "joined", "read", "rotate", "reject", "refreshed", "refused",
     "drop", "lost"}

Routed(op, by, pc) ==
    \/ op = "register" /\ pc \in {"find", "insert", "setVerify", "store", "answer"}
    \/ op = "login" /\ pc \in {"find", "store", "answer"}
    \/ op = "refresh" /\ by # "browser" /\ pc \in RefreshPcs
    \/ /\ op \in AuthOps
       /\ pc \in RefreshPcs \cup {"guard", "stale", "done", "find", "save", "compare",
                                   "endSession", "ended", "signOut"}
    \/ op = "reset" /\ pc \in {"find", "save", "clearLink", "endSession", "ended"}
    \/ op = "forgot" /\ pc = "setLink"
    \/ op = "verify" /\ pc = "mark"
    \/ op \in {"deactivate", "activate", "changeRole"} /\ pc = "update"

OnRoute(x) == Routed(x.op, x.by, x.pc)

Shape ==
    /\ DOMAIN row = Fields /\ row.session \in Nat /\ row.link \in Nat /\ issued \in Nat
    /\ DOMAIN calls = Calls /\ DOMAIN seen = Calls
    /\ calls = [c \in Calls |-> calls[c]]
    /\ \A c \in Calls : Running(c) => Full(calls[c]) /\ OnRoute(calls[c])
    /\ \A c \in Calls : Pc(c) = "save" => DOMAIN calls[c].copy = Selected
    /\ \A c \in Calls : Pc(c) \in {"setVerify", "store", "rotate"} => row.registered
    /\ ~row.registered => row.session = 0

(* A refresh that works is the one its token stands for.                   *)
WorkingPcs == {"read", "rotate", "reject"}
Working(c) == Pc(c) \in WorkingPcs

InFlight ==
    /\ \A t \in DOMAIN flight :
         flight[t] \in Calls /\ Working(flight[t]) /\ calls[flight[t]].token = t
    /\ \A c \in Calls : Working(c) =>
         calls[c].token \in DOMAIN flight /\ flight[calls[c].token] = c
    /\ \A c \in Calls : Pc(c) = "joined" => calls[c].token \in DOMAIN flight

(* What a call has seen is at least what the refresh it joined has seen.   *)
Witnessed ==
    /\ \A c \in Calls : Pc(c) = "rotate" => TRUE \in seen[c]
    /\ \A c \in Calls : Pc(c) \in {"reject", "refused"} => FALSE \in seen[c]
    /\ \A c \in Calls : Pc(c) = "joined" => seen[flight[calls[c].token]] \subseteq seen[c]

(* A reset carries the link it came with, and once it is past the          *)
(* statement that clears the link the row does not hold it any more.       *)
LinksSpent ==
    /\ row.link <= issued
    /\ \A l \in reported : l \in 1..issued /\ row.link # l
    /\ \A c \in Calls : Running(c) /\ calls[c].op = "reset" =>
         /\ calls[c].token \in 1..issued
         /\ Pc(c) \in {"endSession", "ended"} => row.link # calls[c].token

Inv == Shape /\ InFlight /\ Witnessed /\ LinksSpent

-----------------------------------------------------------------------------
(* How a step changes the row: an account stays registered, its link is    *)
(* kept, cleared or a new one, and what has never been registered has no   *)
(* session.                                                                *)
RowMoves ==
    /\ DOMAIN row' = Fields /\ row'.session \in Nat /\ row'.link \in Nat
    /\ row.registered => row'.registered
    /\ ~row'.registered => row'.session = 0
    /\ issued' \in Nat /\ issued <= issued'
    /\ row'.link \in {row.link, 0} \/ (row'.link = issued' /\ issued < issued')

LEMMA Begun ==
    ASSUME NEW c, NEW op, NEW by, NEW pc, NEW p, NEW t, Begin(c, op, by, pc, p, t)
    PROVE  UNCHANGED <<row, issued>>
  BY DEF Begin

LEMMA RowKept == ASSUME Shape, UNCHANGED <<row, issued>> PROVE RowMoves
  BY DEF Shape, RowMoves

LEMMA RowRest ==
    ASSUME Shape, NEW c \in Calls,
           \/ FindEmail(c) \/ ValidateUser(c) \/ Answer(c) \/ Refresh(c) \/ ReadSession(c)
           \/ Reject(c) \/ Guard(c) \/ ExpiredToken(c) \/ SendRefresh(c) \/ Refreshed(c)
           \/ DropTokens(c) \/ ShowUser(c) \/ Ended(c) \/ SignOut(c) \/ FindUser(c)
           \/ ComparePassword(c) \/ Fail(c) \/ Pages(c) \/ Elsewhere(c)
    PROVE  RowMoves
<1>1. CASE Pages(c) \/ Elsewhere(c)
  BY <1>1, RowKept, Begun
  DEF Pages, RegisterPage, LoginPage, ForgotPasswordPage, ResetPasswordPage, SettingsPage,
      ProfilePage, DashboardPage, DashboardLayout, Register, Login, ForgotPassword,
      ResetPassword, Call, Elsewhere, CallElsewhere, RefreshElsewhere, VerifyEmail,
      DeactivateUser, ActivateUser, ChangeUserRole
<1>2. CASE ~(Pages(c) \/ Elsewhere(c))
  BY <1>2, RowKept
  DEF FindEmail, ValidateUser, Answer, Refresh, ReadSession, Reject, Guard, ExpiredToken,
      SendRefresh, Refreshed, DropTokens, ShowUser, Ended, SignOut, FindUser,
      ComparePassword, Fail, Quietly
<1> QED
  BY <1>1, <1>2

(* The steps that write the row.                                           *)
LEMMA RowWritten ==
    ASSUME Shape, NEW c \in Calls,
           \/ InsertUser(c) \/ SetVerificationToken(c) \/ StoreToken(c) \/ Rotate(c)
           \/ EndSession(c) \/ SaveUser(c) \/ SetResetToken(c) \/ ClearResetToken(c)
           \/ MarkEmailVerified(c) \/ UpdateUser(c) \/ LapseLinks
    PROVE  RowMoves
<1>0. /\ DOMAIN row = Fields /\ row.session \in Nat /\ row.link \in Nat /\ issued \in Nat
      /\ ~row.registered => row.session = 0
  BY DEF Shape
<1> USE DEF RowMoves, RowStep, Fields
<1>1. CASE InsertUser(c)
  <2>1. CASE row.registered
    BY <1>1, <2>1, RowKept DEF InsertUser, Quietly
  <2>2. CASE ~row.registered
    BY <1>1, <2>2, <1>0 DEF InsertUser, NewAccount
  <2> QED
    BY <2>1, <2>2
<1>2. CASE SetVerificationToken(c)
  BY <1>2, <1>0 DEF SetVerificationToken
<1>3. CASE StoreToken(c)
  <2>1. row.registered
    BY <1>3 DEF StoreToken, Shape, Pc
  <2> QED
    BY <1>3, <1>0, <2>1 DEF StoreToken
<1>4. CASE Rotate(c)
  <2>1. row.registered
    BY <1>4 DEF Rotate, Shape
  <2> QED
    BY <1>4, <1>0, <2>1 DEF Rotate
<1>5. CASE EndSession(c)
  BY <1>5, <1>0 DEF EndSession
<1>6. CASE SaveUser(c)
  <2>1. DOMAIN calls[c].copy = Selected
    BY <1>6 DEF SaveUser, Shape
  <2>2. ASSUME NEW changes, DOMAIN changes \subseteq {"password"}, RowStep(Saved(c, changes))
        PROVE  RowMoves
    <3>1. /\ DOMAIN row' = Fields
          /\ \A f \in {"registered", "session", "link"} : row'[f] = row[f]
      BY <1>0, <2>1, <2>2 DEF Saved, Selected
    <3> QED
      BY <1>0, <2>2, <3>1
  <2>3. DOMAIN <<>> \subseteq {"password"} /\ DOMAIN [password |-> calls[c].password] \subseteq {"password"}
    OBVIOUS
  <2> QED
    BY <1>6, <2>2, <2>3 DEF SaveUser
<1>7. CASE SetResetToken(c)
  BY <1>7, <1>0 DEF SetResetToken
<1>8. CASE ClearResetToken(c)
  BY <1>8, <1>0 DEF ClearResetToken
<1>9. CASE MarkEmailVerified(c)
  BY <1>9, <1>0 DEF MarkEmailVerified
<1>10. CASE UpdateUser(c)
  <2>1. calls[c].op \in {"deactivate", "activate", "changeRole"}
    BY <1>10 DEF UpdateUser, Pc, Shape, OnRoute, Routed, RefreshPcs
  <2> QED
    BY <1>10, <1>0, <2>1 DEF UpdateUser
<1>11. CASE LapseLinks
  BY <1>11, <1>0 DEF LapseLinks
<1> QED
  BY <1>1, <1>2, <1>3, <1>4, <1>5, <1>6, <1>7, <1>8, <1>9, <1>10, <1>11

-----------------------------------------------------------------------------
(* How a step changes what the calls are doing.                            *)
Becomes(c, y) == calls' = [calls EXCEPT ![c] = y]

(* A call gets on from x to y, a refresh aside.                            *)
Advances(x, y) ==
    /\ Full(y) /\ y # Idle /\ OnRoute(y)
    /\ y.pc \notin WorkingPcs \cup {"joined", "refused"}
    /\ y.pc = "save" => y.copy = Loaded
    /\ y.pc \in {"setVerify", "store"} => row'.registered
    /\ y.op = "reset" =>
         /\ y.token \in 1..issued
         /\ \/ y.pc = "find"
            \/ /\ x # Idle /\ x.op = "reset" /\ y.token = x.token
               /\ y.pc = "endSession" => row'.link = 0
               /\ y.pc = "ended" => x.pc = "endSession"

(* A call that works on no refresh and waits for none gets on or ends.     *)
Reports(c) ==
    \/ reported' = reported
    \/ /\ At(c, "reset", "ended") /\ Running(c)
       /\ reported' = reported \cup {calls[c].token} /\ UNCHANGED row

Goes(c, y) ==
    /\ Becomes(c, y) /\ UNCHANGED flight /\ Reports(c)
    /\ ~Working(c) /\ Pc(c) # "joined"
    /\ y = Idle \/ Advances(calls[c], y)

(* A refresh ends, for all who wait for it.                                *)
Lands(c, pc, t) ==
    /\ Working(c) /\ Land(c, pc, t) /\ UNCHANGED reported
    /\ pc \in {"refreshed", "refused", "lost"}
    /\ pc = "refused" => Pc(c) = "reject"

Apart == UNCHANGED <<calls, flight, reported>>

Moves(c) == Refresh(c) \/ ReadSession(c) \/ (\E y : Goes(c, y)) \/ (\E pc, t : Lands(c, pc, t))

LEMMA SameBut ==
    ASSUME NEW x, Full(x), NEW pc
    PROVE  LET y == [x EXCEPT !.pc = pc] IN
           /\ Full(y) /\ y # Idle
           /\ y.pc = pc /\ y.op = x.op /\ y.by = x.by /\ y.token = x.token /\ y.copy = x.copy
<1> DEFINE y == [x EXCEPT !.pc = pc]
<1>1. DOMAIN y = CallFields /\ DOMAIN Idle # CallFields
  BY DEF Full, CallFields, Idle
<1>2. y # Idle
  BY <1>1
<1> QED
  BY <1>1, <1>2 DEF Full, CallFields

LEMMA RunningIs ==
    ASSUME Shape, NEW c \in Calls, NEW pc, Pc(c) = pc, pc # "idle"
    PROVE  Running(c) /\ calls[c].pc = pc /\ Full(calls[c]) /\ OnRoute(calls[c])
  BY DEF Pc, Shape

LEMMA AtIs ==
    ASSUME Shape, NEW c \in Calls, NEW op, NEW pc, At(c, op, pc), op # "none"
    PROVE  Running(c) /\ Pc(c) = pc /\ calls[c].op = op
  BY DEF At, Pc, Running, Idle

LEMMA GotoGoes ==
    ASSUME Inv, NEW c \in Calls, Running(c), ~Working(c), Pc(c) # "joined",
           NEW pc, Goto(c, pc), UNCHANGED <<flight, reported>>,
           Routed(calls[c].op, calls[c].by, pc),
           pc \notin WorkingPcs \cup {"joined", "refused", "save"},
           pc \in {"setVerify", "store"} => row'.registered,
           calls[c].op = "reset" =>
             /\ pc = "endSession" => row'.link = 0
             /\ pc = "ended" => calls[c].pc = "endSession"
    PROVE  Moves(c)
<1> DEFINE y == [calls[c] EXCEPT !.pc = pc]
<1>1. Full(calls[c])
  BY DEF Inv, Shape
<1>2. /\ Full(y) /\ y # Idle
      /\ y.pc = pc /\ y.op = calls[c].op /\ y.by = calls[c].by /\ y.token = calls[c].token
  BY <1>1, SameBut
<1>3. Becomes(c, y)
  BY DEF Goto, Becomes
<1> HIDE DEF y
<1>4. Advances(calls[c], y)
  BY <1>2 DEF Advances, OnRoute, Inv, LinksSpent, Running
<1> QED
  BY <1>3, <1>4 DEF Goes, Moves, Reports

LEMMA EndGoes ==
    ASSUME NEW c \in Calls, End(c), ~Working(c), Pc(c) # "joined", UNCHANGED flight, Reports(c)
    PROVE  Moves(c)
  BY DEF End, Goes, Becomes, Moves

LEMMA BeginGoes ==
    ASSUME Inv, NEW c \in Calls, NEW op, NEW by, NEW pc, NEW p, NEW t,
           Begin(c, op, by, pc, p, t), Routed(op, by, pc),
           pc \notin WorkingPcs \cup {"joined", "refused", "save", "setVerify", "store"},
           op = "reset" => pc = "find" /\ t \in 1..issued
    PROVE  Moves(c)
<1> DEFINE y == [op |-> op, by |-> by, pc |-> pc, password |-> p, token |-> t,
                 copy |-> None, retried |-> FALSE]
<1>1. /\ DOMAIN y = CallFields /\ DOMAIN Idle # CallFields
      /\ y.pc = pc /\ y.op = op /\ y.by = by /\ y.token = t
  BY DEF CallFields, Idle
<1>2. y # Idle
  BY <1>1
<1>3. Becomes(c, y) /\ UNCHANGED <<flight, reported>> /\ ~Running(c)
  BY DEF Begin, Becomes
<1> HIDE DEF y
<1>4. Pc(c) = "idle"
  BY <1>3 DEF Pc
<1>5. Advances(calls[c], y)
  BY <1>1, <1>2 DEF Advances, OnRoute, Full
<1> QED
  BY <1>3, <1>4, <1>5 DEF Goes, Moves, Reports, Working, WorkingPcs

LEMMA UnauthorizedGoes ==
    ASSUME Inv, NEW c \in Calls, Running(c), ~Working(c), Pc(c) # "joined",
           Unauthorized(c), UNCHANGED <<flight, reported>>,
           calls[c].op \in AuthOps
    PROVE  Moves(c)
<1>1. CASE Goto(c, "refresh")
  BY <1>1, GotoGoes DEF Routed, RefreshPcs, WorkingPcs, AuthOps
<1>2. CASE End(c)
  BY <1>2, EndGoes DEF Reports
<1> QED
  BY <1>1, <1>2 DEF Unauthorized

(* register and login *)
LEMMA EntryMoves ==
    ASSUME Inv, NEW c \in Calls,
           \/ FindEmail(c) \/ InsertUser(c) \/ SetVerificationToken(c)
           \/ ValidateUser(c) \/ StoreToken(c) \/ Answer(c)
    PROVE  Moves(c)
<1> USE DEF Reports, Working, WorkingPcs, Quietly, RowStep
<1>0. Shape
  BY DEF Inv
<1>1. CASE FindEmail(c)
  <2>1. Running(c) /\ Pc(c) = "find" /\ calls[c].op = "register" /\ UNCHANGED <<flight, reported>>
    BY <1>0, <1>1, AtIs DEF FindEmail
  <2>2. CASE End(c)
    BY <2>1, <2>2, EndGoes
  <2>3. CASE Goto(c, "insert")
    BY <2>1, <2>3, GotoGoes DEF Routed
  <2> QED
    BY <1>1, <2>2, <2>3 DEF FindEmail
<1>2. CASE InsertUser(c)
  <2>1. Running(c) /\ Pc(c) = "insert" /\ calls[c].op = "register" /\ UNCHANGED <<flight, reported>>
    BY <1>0, <1>2, AtIs DEF InsertUser
  <2>2. CASE End(c)
    BY <2>1, <2>2, EndGoes
  <2>3. CASE Goto(c, "setVerify") /\ row' = NewAccount(calls[c].password)
    <3>1. row'.registered
      BY <2>3 DEF NewAccount
    <3> QED
      BY <2>1, <2>3, <3>1, GotoGoes DEF Routed
  <2> QED
    BY <1>2, <2>2, <2>3 DEF InsertUser
<1>3. CASE SetVerificationToken(c)
  <2>1. Running(c) /\ Pc(c) = "setVerify" /\ calls[c].op = "register" /\ UNCHANGED <<flight, reported>>
    BY <1>0, <1>3, AtIs DEF SetVerificationToken
  <2>2. row'.registered
    BY <1>0, <1>3, <2>1, RowWritten DEF Shape, RowMoves
  <2> QED
    BY <1>3, <2>1, <2>2, GotoGoes DEF Routed, SetVerificationToken
<1>4. CASE ValidateUser(c)
  <2>1. Running(c) /\ Pc(c) = "find" /\ calls[c].op = "login" /\ UNCHANGED <<row, flight, reported>>
    BY <1>0, <1>4, AtIs DEF ValidateUser
  <2>2. CASE End(c)
    BY <2>1, <2>2, EndGoes
  <2>3. CASE Goto(c, "store") /\ row.registered
    BY <2>1, <2>3, GotoGoes DEF Routed
  <2> QED
    BY <1>4, <2>2, <2>3 DEF ValidateUser
<1>5. CASE StoreToken(c)
  <2>1. /\ Running(c) /\ Pc(c) = "store" /\ calls[c].op \in {"register", "login"}
        /\ Full(calls[c]) /\ UNCHANGED <<flight, reported>>
    BY <1>0, <1>5 DEF StoreToken, Pc, Shape
  <2> DEFINE y == [calls[c] EXCEPT !.pc = "answer", !.token = issued']
  <2>2. DOMAIN y = CallFields /\ DOMAIN Idle # CallFields
    BY <2>1 DEF Full, CallFields, Idle
  <2>3. y # Idle
    BY <2>2
  <2>4. y.pc = "answer" /\ y.op = calls[c].op
    BY <2>1 DEF Full, CallFields
  <2>5. Becomes(c, y)
    BY <1>0, <1>5 DEF StoreToken, Becomes, Shape
  <2> HIDE DEF y
  <2>6. Advances(calls[c], y)
    BY <2>1, <2>2, <2>3, <2>4 DEF Advances, Full, OnRoute, Routed
  <2> QED
    BY <2>1, <2>5, <2>6 DEF Goes, Moves
<1>6. CASE Answer(c)
  BY <1>6, EndGoes DEF Answer
<1> QED
  BY <1>1, <1>2, <1>3, <1>4, <1>5, <1>6

(* The refresh, and what the browser does with a 401.                      *)
LEMMA RefreshMoves ==
    ASSUME Inv, NEW c \in Calls,
           \/ Refresh(c) \/ ReadSession(c) \/ Rotate(c) \/ Reject(c)
           \/ Guard(c) \/ ExpiredToken(c) \/ SendRefresh(c) \/ Refreshed(c)
           \/ DropTokens(c) \/ ShowUser(c)
    PROVE  Moves(c)
<1> USE DEF Reports, Working, WorkingPcs, Quietly, RowStep
<1>0. Shape
  BY DEF Inv
<1>1. CASE Refresh(c) \/ ReadSession(c)
  BY <1>1 DEF Moves
<1>2. CASE Rotate(c) \/ Reject(c)
  BY <1>2 DEF Moves, Lands, Rotate, Reject
<1>3. CASE Guard(c)
  <2>1. Running(c) /\ Pc(c) = "guard" /\ calls[c].op \in AuthOps /\ UNCHANGED <<flight, reported>>
    BY <1>0, <1>3, RunningIs DEF Guard, OnRoute, Routed, RefreshPcs
  <2>2. CASE Unauthorized(c)
    BY <2>1, <2>2, UnauthorizedGoes
  <2>3. ASSUME NEW pc \in {"done", "find", "compare", "endSession"}, Goto(c, pc)
        PROVE  Moves(c)
    BY <2>1, <2>3, GotoGoes DEF Routed, AuthOps
  <2> QED
    BY <1>3, <2>1, <2>2, <2>3 DEF Guard, AuthOps
<1>4. CASE ExpiredToken(c)
  <2>1. Running(c) /\ Pc(c) = "stale" /\ calls[c].op \in AuthOps /\ UNCHANGED <<flight, reported>>
    BY <1>0, <1>4, RunningIs DEF ExpiredToken, OnRoute, Routed, RefreshPcs
  <2> QED
    BY <1>4, <2>1, UnauthorizedGoes DEF ExpiredToken
<1>5. CASE SendRefresh(c)
  <2> DEFINE y == [calls[c] EXCEPT !.token = browser.stored,
                                   !.pc = IF browser.stored = 0 THEN "drop" ELSE "sent"]
  <2>1. /\ Running(c) /\ Pc(c) = "refresh" /\ calls[c].pc = "refresh" /\ Full(calls[c])
        /\ OnRoute(calls[c]) /\ UNCHANGED <<flight, reported>>
    BY <1>0, <1>5, RunningIs DEF SendRefresh
  <2>2. DOMAIN y = CallFields /\ DOMAIN Idle # CallFields
    BY <2>1 DEF Full, CallFields, Idle
  <2>3. y # Idle
    BY <2>2
  <2>4. y.pc \in {"drop", "sent"} /\ y.op = calls[c].op /\ y.by = calls[c].by
    BY <2>1 DEF Full, CallFields
  <2>5. Becomes(c, y)
    BY <1>0, <1>5 DEF SendRefresh, Becomes, Shape
  <2> HIDE DEF y
  <2>6. Advances(calls[c], y)
    BY <2>1, <2>2, <2>3, <2>4 DEF Advances, Full, OnRoute, Routed, RefreshPcs, AuthOps
  <2> QED
    BY <2>1, <2>5, <2>6 DEF Goes, Moves
<1>6. CASE Refreshed(c)
  <2>1. /\ Running(c) /\ Pc(c) = "refreshed" /\ calls[c].pc = "refreshed" /\ Full(calls[c])
        /\ OnRoute(calls[c]) /\ UNCHANGED <<flight, reported>>
    BY <1>0, <1>6, RunningIs DEF Refreshed
  <2>2. CASE End(c)
    BY <2>1, <2>2, EndGoes
  <2>3. CASE Browsing(c)
    <3> DEFINE y == [calls[c] EXCEPT !.pc = "guard", !.retried = TRUE]
    <3>1. calls[c].op \in AuthOps
      BY <2>1, <2>3 DEF OnRoute, Routed, RefreshPcs, Browsing
    <3>2. DOMAIN y = CallFields /\ DOMAIN Idle # CallFields
      BY <2>1 DEF Full, CallFields, Idle
    <3>3. y # Idle
      BY <3>2
    <3>4. y.pc = "guard" /\ y.op = calls[c].op
      BY <2>1 DEF Full, CallFields
    <3>5. Becomes(c, y)
      BY <1>0, <1>6, <2>3 DEF Refreshed, Becomes, Shape
    <3> HIDE DEF y
    <3>6. Advances(calls[c], y)
      BY <3>1, <3>2, <3>3, <3>4 DEF Advances, Full, OnRoute, Routed, AuthOps
    <3> QED
      BY <2>1, <3>5, <3>6 DEF Goes, Moves
  <2> QED
    BY <1>6, <2>2, <2>3 DEF Refreshed
<1>7. CASE DropTokens(c)
  BY <1>7, EndGoes DEF DropTokens
<1>8. CASE ShowUser(c)
  BY <1>8, EndGoes DEF ShowUser
<1> QED
  BY <1>1, <1>2, <1>3, <1>4, <1>5, <1>6, <1>7, <1>8

(* What the authenticated calls, the links of the mails and the            *)
(* administrator do.                                                       *)
LEMMA AccountMoves ==
    ASSUME Inv, NEW c \in Calls,
           \/ EndSession(c) \/ Ended(c) \/ SignOut(c) \/ FindUser(c) \/ SaveUser(c)
           \/ ComparePassword(c) \/ SetResetToken(c) \/ ClearResetToken(c)
           \/ MarkEmailVerified(c) \/ UpdateUser(c)
    PROVE  Moves(c)
<1> USE DEF Working, WorkingPcs, Quietly, RowStep
<1>0. Shape
  BY DEF Inv
<1>1. CASE EndSession(c)
  <2>1. /\ Running(c) /\ Pc(c) = "endSession" /\ calls[c].pc = "endSession"
        /\ calls[c].op \in AuthOps \cup {"reset"} /\ UNCHANGED <<flight, reported>>
    BY <1>0, <1>1, RunningIs DEF EndSession, OnRoute, Routed, RefreshPcs
  <2> QED
    BY <1>1, <2>1, GotoGoes DEF EndSession, Routed, AuthOps
<1>2. CASE Ended(c)
  <2>1. /\ Running(c) /\ Pc(c) = "ended" /\ calls[c].pc = "ended" /\ UNCHANGED <<row, flight>>
    BY <1>0, <1>2, RunningIs DEF Ended
  <2>2. Reports(c)
    BY <1>2, <2>1 DEF Ended, Reports, At
  <2>3. CASE End(c)
    BY <2>1, <2>2, <2>3, EndGoes
  <2>4. CASE At(c, "changePassword", "ended") /\ Goto(c, "signOut")
    <3>1. calls[c].op = "changePassword" /\ reported' = reported
      BY <1>2, <2>4 DEF At, Ended
    <3> QED
      BY <2>1, <2>4, <3>1, GotoGoes DEF Routed, AuthOps
  <2> QED
    BY <1>2, <2>3, <2>4 DEF Ended
<1>3. CASE SignOut(c)
  <2> DEFINE y == [calls[c] EXCEPT !.op = "logout", !.pc = Sent, !.retried = FALSE]
  <2>1. Running(c) /\ Pc(c) = "signOut" /\ UNCHANGED <<flight, reported>>
    BY <1>0, <1>3, AtIs DEF SignOut
  <2>2. DOMAIN y = CallFields /\ DOMAIN Idle # CallFields
    BY <1>0, <2>1 DEF Full, CallFields, Idle, Shape
  <2>3. y # Idle
    BY <2>2
  <2>4. y.pc \in {"guard", "stale"} /\ y.op = "logout"
    BY <1>0, <2>1 DEF Full, CallFields, Shape, Sent
  <2>5. Becomes(c, y)
    BY <1>0, <1>3 DEF SignOut, Becomes, Shape
  <2> HIDE DEF y
  <2>6. Advances(calls[c], y)
    BY <2>2, <2>3, <2>4 DEF Advances, Full, OnRoute, Routed, AuthOps
  <2> QED
    BY <2>1, <2>5, <2>6 DEF Goes, Moves, Reports
<1>4. CASE FindUser(c)
  <2> DEFINE y == [calls[c] EXCEPT !.copy = Loaded, !.pc = "save"]
  <2>1. /\ Running(c) /\ Pc(c) = "find" /\ Full(calls[c])
        /\ calls[c].op \in {"profile", "changePassword", "reset"}
        /\ UNCHANGED <<flight, reported>>
    BY <1>0, <1>4, RunningIs DEF FindUser
  <2>2. DOMAIN y = CallFields /\ DOMAIN Idle # CallFields
    BY <2>1 DEF Full, CallFields, Idle
  <2>3. y # Idle
    BY <2>2
  <2>4. y.pc = "save" /\ y.op = calls[c].op /\ y.copy = Loaded /\ y.token = calls[c].token
    BY <2>1 DEF Full, CallFields
  <2>5. Becomes(c, y)
    BY <1>0, <1>4 DEF FindUser, Becomes, Shape
  <2> HIDE DEF y
  <2>6. OnRoute(y)
    BY <2>1, <2>4 DEF OnRoute, Routed, AuthOps
  <2>7. Advances(calls[c], y)
    BY <2>1, <2>2, <2>3, <2>4, <2>6 DEF Advances, Full, Inv, LinksSpent, Running
  <2> QED
    BY <2>1, <2>5, <2>7 DEF Goes, Moves, Reports
<1>5. CASE SaveUser(c)
  <2>1. /\ Running(c) /\ Pc(c) = "save" /\ OnRoute(calls[c]) /\ calls[c].pc = "save"
        /\ UNCHANGED <<flight, reported>>
    BY <1>0, <1>5, RunningIs DEF SaveUser
  <2>2. CASE End(c)
    BY <2>1, <2>2, EndGoes DEF Reports
  <2>3. CASE calls[c].op = "profile" /\ Goto(c, "done")
    BY <2>1, <2>3, GotoGoes DEF Routed, AuthOps
  <2>4. CASE calls[c].op = "reset" /\ Goto(c, "clearLink")
    BY <2>1, <2>4, GotoGoes DEF Routed
  <2>5. CASE calls[c].op \notin {"profile", "reset"} /\ Goto(c, "endSession")
    <3>1. calls[c].op \in AuthOps
      BY <2>1, <2>5 DEF OnRoute, Routed, RefreshPcs
    <3> QED
      BY <2>1, <2>5, <3>1, GotoGoes DEF Routed
  <2> QED
    BY <1>5, <2>2, <2>3, <2>4, <2>5 DEF SaveUser
<1>6. CASE ComparePassword(c)
  <2>1. /\ Running(c) /\ Pc(c) = "compare" /\ calls[c].op = "changePassword"
        /\ UNCHANGED <<flight, reported>>
    BY <1>0, <1>6, AtIs DEF ComparePassword
  <2>2. CASE Goto(c, "find")
    BY <2>1, <2>2, GotoGoes DEF Routed, AuthOps
  <2>3. CASE Unauthorized(c)
    BY <2>1, <2>3, UnauthorizedGoes DEF AuthOps
  <2> QED
    BY <1>6, <2>2, <2>3 DEF ComparePassword
<1>7. CASE SetResetToken(c)
  <2>1. Pc(c) = "setLink" /\ UNCHANGED <<flight, reported>> /\ End(c)
    BY <1>0, <1>7, AtIs DEF SetResetToken
  <2> QED
    BY <2>1, EndGoes DEF Reports
<1>8. CASE ClearResetToken(c)
  <2>1. /\ Running(c) /\ Pc(c) = "clearLink" /\ calls[c].op = "reset"
        /\ UNCHANGED <<flight, reported>>
    BY <1>0, <1>8, AtIs DEF ClearResetToken
  <2>2. row'.link = 0
    BY <1>0, <1>8 DEF ClearResetToken, Shape, Fields
  <2> QED
    BY <1>8, <2>1, <2>2, GotoGoes DEF Routed, ClearResetToken
<1>9. CASE MarkEmailVerified(c)
  <2>1. Pc(c) = "mark" /\ UNCHANGED <<flight, reported>> /\ End(c)
    BY <1>0, <1>9, AtIs DEF MarkEmailVerified
  <2> QED
    BY <2>1, EndGoes DEF Reports
<1>10. CASE UpdateUser(c)
  BY <1>10, EndGoes DEF UpdateUser, Reports
<1> QED
  BY <1>1, <1>2, <1>3, <1>4, <1>5, <1>6, <1>7, <1>8, <1>9, <1>10

(* Calls begin, on the pages and elsewhere.                                *)
LEMMA NewCallMoves ==
    ASSUME Inv, NEW c \in Calls, Pages(c) \/ Elsewhere(c)
    PROVE  Moves(c)
<1> USE DEF Routed, WorkingPcs, AuthOps, RefreshPcs
<1>1. ASSUME NEW p, NEW by, Register(c, by, p) \/ Login(c, by, p)
      PROVE  Moves(c)
  BY <1>1, BeginGoes DEF Register, Login
<1>2. ASSUME NEW p, NEW op \in AuthOps, Call(c, op, p)
      PROVE  Moves(c)
  <2>1. Sent \in {"guard", "stale"}
    BY DEF Sent
  <2> QED
    BY <1>2, <2>1, BeginGoes DEF Call
<1>3. ASSUME NEW p, NEW op \in AuthOps, CallElsewhere(c, op, p)
      PROVE  Moves(c)
  BY <1>3, BeginGoes DEF CallElsewhere
<1>4. ASSUME NEW t, RefreshElsewhere(c, t)
      PROVE  Moves(c)
  BY <1>4, BeginGoes DEF RefreshElsewhere
<1>5. CASE ForgotPassword(c)
  BY <1>5, BeginGoes DEF ForgotPassword
<1>6. ASSUME NEW p, ResetPassword(c, p)
      PROVE  Moves(c)
  <2>1. row.link \in 1..issued
    BY <1>6 DEF ResetPassword, Inv, Shape, LinksSpent
  <2> QED
    BY <1>6, <2>1, BeginGoes DEF ResetPassword
<1>7. CASE VerifyEmail(c) \/ DeactivateUser(c) \/ ActivateUser(c) \/ ChangeUserRole(c)
  BY <1>7, BeginGoes DEF VerifyEmail, DeactivateUser, ActivateUser, ChangeUserRole
<1>8. CASE Pages(c)
  BY <1>8, <1>1, <1>2, <1>5, <1>6
  DEF Pages, RegisterPage, LoginPage, ForgotPasswordPage, ResetPasswordPage, SettingsPage,
      ProfilePage, DashboardPage, DashboardLayout
<1>9. CASE Elsewhere(c)
  BY <1>9, <1>1, <1>3, <1>4, <1>7 DEF Elsewhere
<1> QED
  BY <1>8, <1>9

LEMMA FailMoves == ASSUME Inv, NEW c \in Calls, Fail(c) PROVE Moves(c)
<1>0. Shape /\ Running(c) /\ UNCHANGED reported /\ Pc(c) # "joined"
  BY DEF Inv, Fail
<1>1. CASE Working(c)
  BY <1>0, <1>1 DEF Fail, Working, WorkingPcs, Moves, Lands
<1>2. CASE Pc(c) \in {"sent", "refreshed"}
  <2>1. Full(calls[c]) /\ OnRoute(calls[c]) /\ calls[c].pc \in {"sent", "refreshed"}
    BY <1>0, <1>2, RunningIs
  <2>2. Routed(calls[c].op, calls[c].by, "lost") /\ calls[c].op # "reset"
    BY <2>1 DEF OnRoute, Routed, RefreshPcs, AuthOps
  <2>3. Goto(c, "lost") /\ UNCHANGED flight
    BY <1>2 DEF Fail
  <2> QED
    BY <1>0, <1>2, <2>2, <2>3, GotoGoes DEF Working, WorkingPcs
<1>3. CASE ~Working(c) /\ Pc(c) \notin {"sent", "refreshed"}
  BY <1>0, <1>3, EndGoes DEF Fail, Working, WorkingPcs, Reports
<1> QED
  BY <1>1, <1>2, <1>3

LEMMA StepMoves ==
    ASSUME Inv, Next
    PROVE  RowMoves /\ Watch /\ (Apart \/ \E c \in Calls : Moves(c))
<1>0. Shape
  BY DEF Inv
<1>1. CASE Expire \/ Reload
  BY <1>0, <1>1, RowKept DEF Expire, Reload, Apart, Next
<1>2. CASE LapseLinks
  <2>1. RowMoves
    <3>1. CASE Calls # {}
      BY <1>0, <1>2, <3>1, RowWritten
    <3>2. CASE Calls = {}
      BY <1>0, <1>2 DEF LapseLinks, RowStep, RowMoves, Shape, Fields
    <3> QED
      BY <3>1, <3>2
  <2> QED
    BY <1>2, <2>1 DEF LapseLinks, RowStep, Apart, Next
<1>3. ASSUME NEW c \in Calls, Proceed(c)
      PROVE  RowMoves /\ Moves(c)
  BY <1>0, <1>3, RowRest, RowWritten, EntryMoves, RefreshMoves, AccountMoves DEF Proceed
<1>4. ASSUME NEW c \in Calls, Pages(c) \/ Elsewhere(c)
      PROVE  RowMoves /\ Moves(c)
  BY <1>0, <1>4, RowRest, NewCallMoves
<1>5. ASSUME NEW c \in Calls, Fail(c)
      PROVE  RowMoves /\ Moves(c)
  BY <1>0, <1>5, RowRest, FailMoves
<1> QED
  BY <1>1, <1>2, <1>3, <1>4, <1>5 DEF Next

-----------------------------------------------------------------------------
(* The calls after each kind of move.                                      *)
LEMMA Becoming ==
    ASSUME Shape, NEW c \in Calls, NEW y, Becomes(c, y)
    PROVE  /\ calls' = [d \in Calls |-> calls'[d]]
           /\ calls'[c] = y /\ \A d \in Calls \ {c} : calls'[d] = calls[d]
  BY DEF Shape, Becomes

(* A refresh is taken up or joined.                                        *)
LEMMA Taking ==
    ASSUME Shape, NEW c \in Calls, Refresh(c)
    PROVE  /\ calls' = [d \in Calls |-> calls'[d]]
           /\ Pc(c) = "sent" /\ Full(calls[c]) /\ OnRoute(calls[c]) /\ Running(c)
           /\ Full(calls'[c]) /\ Running(c)' /\ OnRoute(calls[c])'
           /\ calls'[c].op = calls[c].op /\ calls'[c].token = calls[c].token
           /\ Pc(c)' = IF calls[c].token \in DOMAIN flight THEN "joined" ELSE "read"
           /\ \A d \in Calls \ {c} : calls'[d] = calls[d]
           /\ UNCHANGED <<row, reported>>
<1> DEFINE pc == IF calls[c].token \in DOMAIN flight THEN "joined" ELSE "read"
           y == [calls[c] EXCEPT !.pc = pc]
<1>1. /\ Running(c) /\ Pc(c) = "sent" /\ calls[c].pc = "sent" /\ Full(calls[c])
      /\ OnRoute(calls[c]) /\ UNCHANGED <<row, reported>>
  BY RunningIs DEF Refresh
<1>2. Becomes(c, y)
  BY DEF Refresh, Goto, Becomes
<1>3. /\ Full(y) /\ y # Idle
      /\ y.pc = pc /\ y.op = calls[c].op /\ y.by = calls[c].by /\ y.token = calls[c].token
  BY <1>1, SameBut
<1> HIDE DEF y
<1>4. OnRoute(y)
  BY <1>1, <1>3 DEF OnRoute, Routed, RefreshPcs, AuthOps
<1> QED
  BY <1>1, <1>2, <1>3, <1>4, Becoming DEF Running, Pc

(* The user and the stored token have been read.                           *)
LEMMA Deciding ==
    ASSUME Shape, NEW c \in Calls, ReadSession(c)
    PROVE  /\ calls' = [d \in Calls |-> calls'[d]]
           /\ Pc(c) = "read" /\ Full(calls[c]) /\ OnRoute(calls[c]) /\ Running(c)
           /\ Full(calls'[c]) /\ Running(c)' /\ OnRoute(calls[c])'
           /\ calls'[c].op = calls[c].op /\ calls'[c].token = calls[c].token
           /\ \/ Pc(c)' = "rotate" /\ row.registered /\ row.session # 0
              \/ Pc(c)' = "reject" /\ row.session = 0
           /\ \A d \in Calls \ {c} : calls'[d] = calls[d]
           /\ UNCHANGED <<row, flight, reported>>
<1> DEFINE pc == IF row.registered /\ Matches(calls[c].token, row.session) THEN "rotate" ELSE "reject"
           y == [calls[c] EXCEPT !.pc = pc]
<1>1. /\ Running(c) /\ Pc(c) = "read" /\ calls[c].pc = "read" /\ Full(calls[c])
      /\ OnRoute(calls[c]) /\ UNCHANGED <<row, flight, reported>>
  BY RunningIs DEF ReadSession, Quietly
<1>2. Becomes(c, y)
  BY DEF ReadSession, Goto, Becomes
<1>3. /\ Full(y) /\ y # Idle
      /\ y.pc = pc /\ y.op = calls[c].op /\ y.by = calls[c].by /\ y.token = calls[c].token
  BY <1>1, SameBut
<1> HIDE DEF y
<1>4. OnRoute(y)
  BY <1>1, <1>3 DEF OnRoute, Routed, RefreshPcs, AuthOps
<1>5. \/ pc = "rotate" /\ row.registered /\ row.session # 0
      \/ pc = "reject" /\ row.session = 0
  <2>1. CASE row.registered
    BY <2>1 DEF Matches
  <2>2. CASE ~row.registered
    BY <2>2 DEF Shape
  <2> QED
    BY <2>1, <2>2
<1> QED
  BY <1>1, <1>2, <1>3, <1>4, <1>5, Becoming DEF Running, Pc

(* It is over for the call that refreshed and for those who joined it.     *)
LEMMA Landing ==
    ASSUME Shape, NEW c \in Calls, NEW pc, NEW t, Lands(c, pc, t)
    PROVE  /\ calls' = [d \in Calls |-> calls'[d]]
           /\ Running(c) /\ flight' = Landed(calls[c].token) /\ UNCHANGED reported
           /\ \A d \in Party(c) :
                /\ Working(d) \/ Pc(d) = "joined"
                /\ Running(d) /\ Running(d)' /\ Full(calls'[d]) /\ OnRoute(calls[d])'
                /\ calls[d].op # "reset" /\ calls'[d].op = calls[d].op
                /\ Pc(d)' = pc
           /\ \A d \in Calls \ Party(c) : calls'[d] = calls[d]
<1>1. /\ Running(c) /\ flight' = Landed(calls[c].token) /\ UNCHANGED reported
      /\ Party(c) \subseteq Calls
      /\ calls' = [d \in Calls |->
           IF d \in Party(c) THEN [calls[d] EXCEPT !.pc = pc, !.token = t] ELSE calls[d]]
  BY DEF Lands, Land, Working, WorkingPcs, Pc, Party
<1>2. ASSUME NEW d \in Party(c)
      PROVE  /\ Working(d) \/ Pc(d) = "joined"
             /\ Running(d) /\ Running(d)' /\ Full(calls'[d]) /\ OnRoute(calls[d])'
             /\ calls[d].op # "reset" /\ calls'[d].op = calls[d].op
             /\ Pc(d)' = pc
  <2> DEFINE y == [calls[d] EXCEPT !.pc = pc, !.token = t]
  <2>0. d \in Calls
    BY <1>1
  <2>1. Pc(d) \in WorkingPcs \cup {"joined"} /\ (Working(d) \/ Pc(d) = "joined")
    BY DEF Party, Lands, Working
  <2>2. /\ Running(d) /\ Full(calls[d]) /\ OnRoute(calls[d])
        /\ calls[d].pc \in WorkingPcs \cup {"joined"}
    BY <2>0, <2>1, RunningIs DEF WorkingPcs
  <2>3. DOMAIN y = CallFields /\ DOMAIN Idle # CallFields
    BY <2>2 DEF Full, CallFields, Idle
  <2>4. y # Idle
    BY <2>3
  <2>5. y.pc = pc /\ y.op = calls[d].op /\ y.by = calls[d].by
    BY <2>2 DEF Full, CallFields
  <2>6. calls'[d] = y
    BY <1>1, <2>0
  <2> HIDE DEF y
  <2>7. OnRoute(y) /\ calls[d].op # "reset"
    BY <2>2, <2>5 DEF OnRoute, Routed, RefreshPcs, AuthOps, WorkingPcs, Lands
  <2> QED
    BY <2>1, <2>2, <2>3, <2>4, <2>5, <2>6, <2>7 DEF Running, Pc, Full
<1> QED
  BY <1>1, <1>2

(* Whatever moves, every record stays full and every call on its route.    *)
LEMMA ShapeKept == ASSUME Inv, Next PROVE Shape'
<1>0. RowMoves /\ Watch /\ Shape
  BY StepMoves DEF Inv
<1>1. DOMAIN seen' = Calls
  BY <1>0 DEF Watch
<1>2. SUFFICES
        /\ calls' = [d \in Calls |-> calls'[d]]
        /\ \A d \in Calls : Running(d)' =>
             /\ Full(calls'[d]) /\ OnRoute(calls[d])'
             /\ Pc(d)' = "save" => DOMAIN calls'[d].copy = Selected
             /\ Pc(d)' \in {"setVerify", "store", "rotate"} => row'.registered
  BY <1>0, <1>1 DEF Shape, RowMoves, Pc
<1>3. \A d \in Calls : calls'[d] = calls[d] /\ Running(d)' =>
             /\ Full(calls'[d]) /\ OnRoute(calls[d])'
             /\ Pc(d)' = "save" => DOMAIN calls'[d].copy = Selected
             /\ Pc(d)' \in {"setVerify", "store", "rotate"} => row'.registered
  BY <1>0 DEF Shape, RowMoves, Running, Pc, OnRoute, Selected
<1>4. CASE Apart
  BY <1>0, <1>3, <1>4 DEF Apart, Shape
<1>5. ASSUME NEW c \in Calls, Refresh(c) PROVE
        /\ calls' = [d \in Calls |-> calls'[d]]
        /\ Full(calls'[c]) /\ OnRoute(calls[c])' /\ Pc(c)' \in {"joined", "read"}
        /\ \A d \in Calls \ {c} : calls'[d] = calls[d]
  BY <1>0, <1>5, Taking
<1>6. ASSUME NEW c \in Calls, ReadSession(c) PROVE
        /\ calls' = [d \in Calls |-> calls'[d]]
        /\ Full(calls'[c]) /\ OnRoute(calls[c])' /\ Pc(c)' \in {"rotate", "reject"}
        /\ Pc(c)' = "rotate" => row'.registered
        /\ \A d \in Calls \ {c} : calls'[d] = calls[d]
  BY <1>0, <1>6, Deciding
<1>7. ASSUME NEW c \in Calls, NEW y, Goes(c, y) PROVE
        /\ calls' = [d \in Calls |-> calls'[d]]
        /\ Running(c)' =>
             /\ Full(calls'[c]) /\ OnRoute(calls[c])'
             /\ Pc(c)' = "save" => DOMAIN calls'[c].copy = Selected
             /\ Pc(c)' \in {"setVerify", "store", "rotate"} => row'.registered
        /\ \A d \in Calls \ {c} : calls'[d] = calls[d]
  <2>1. calls'[c] = y
    BY <1>0, <1>7, Becoming DEF Goes
  <2>2. DOMAIN Loaded = Selected
    BY DEF Loaded
  <2> QED
    BY <1>0, <1>7, <2>1, <2>2, Becoming DEF Goes, Advances, Running, Pc, OnRoute, WorkingPcs
<1>8. ASSUME NEW c \in Calls, NEW pc, NEW t, Lands(c, pc, t) PROVE
        /\ calls' = [d \in Calls |-> calls'[d]]
        /\ \A d \in Party(c) :
             Full(calls'[d]) /\ OnRoute(calls[d])' /\ Pc(d)' \in {"refreshed", "refused", "lost"}
        /\ \A d \in Calls \ Party(c) : calls'[d] = calls[d]
  BY <1>0, <1>8, Landing DEF Lands
<1> QED
  <2>1. ASSUME NEW c \in Calls, Moves(c)
        PROVE  /\ calls' = [d \in Calls |-> calls'[d]]
               /\ \A d \in Calls : Running(d)' =>
                    /\ Full(calls'[d]) /\ OnRoute(calls[d])'
                    /\ Pc(d)' = "save" => DOMAIN calls'[d].copy = Selected
                    /\ Pc(d)' \in {"setVerify", "store", "rotate"} => row'.registered
    BY <1>3, <1>5, <1>6, <1>7, <1>8, <2>1 DEF Moves
  <2> QED
    BY <1>3, <1>4, <2>1, StepMoves

(* The rest of what the calls do leaves the refreshes alone.               *)
LEMMA Going ==
    ASSUME Shape, NEW c \in Calls, NEW y, Goes(c, y)
    PROVE  /\ ~Working(c) /\ Pc(c) # "joined" /\ UNCHANGED flight
           /\ Pc(c)' \notin WorkingPcs \cup {"joined", "refused"}
           /\ Running(c)' => Advances(calls[c], calls'[c])
           /\ \A d \in Calls \ {c} : calls'[d] = calls[d]
<1>1. calls'[c] = y /\ \A d \in Calls \ {c} : calls'[d] = calls[d]
  BY Becoming DEF Goes
<1>2. Running(c)' => Advances(calls[c], calls'[c])
  BY <1>1 DEF Goes, Running
<1>3. Pc(c)' \notin WorkingPcs \cup {"joined", "refused"}
  BY <1>1, <1>2 DEF Pc, Running, WorkingPcs, Advances
<1> QED
  BY <1>1, <1>2, <1>3 DEF Goes

LEMMA InFlightKept == ASSUME Inv, Next PROVE InFlight'
<1>0. Shape /\ InFlight
  BY DEF Inv
<1>1. ASSUME NEW d \in Calls, calls'[d] = calls[d]
      PROVE  Pc(d)' = Pc(d) /\ (Working(d)' <=> Working(d))
  BY <1>1 DEF Pc, Running, Working
<1>2. CASE Apart
  BY <1>0, <1>1, <1>2 DEF Apart, InFlight
<1>3. ASSUME NEW c \in Calls, Refresh(c) PROVE InFlight'
  <2> DEFINE t == calls[c].token
  <2>1. /\ Pc(c) = "sent" /\ calls'[c].token = t
        /\ Pc(c)' = IF t \in DOMAIN flight THEN "joined" ELSE "read"
        /\ \A d \in Calls \ {c} : calls'[d] = calls[d]
    BY <1>0, <1>3, Taking
  <2>2. ~Working(c) /\ (Working(c)' <=> t \notin DOMAIN flight)
    BY <2>1 DEF Working, WorkingPcs
  <2>3. \A u \in DOMAIN flight : flight[u] \in Calls \ {c}
    BY <1>0, <2>2 DEF InFlight
  <2>4. CASE t \in DOMAIN flight
    <3>1. UNCHANGED flight
      BY <1>3, <2>4 DEF Refresh
    <3> QED
      BY <1>0, <1>1, <2>1, <2>2, <2>3, <2>4, <3>1 DEF InFlight
  <2>5. CASE t \notin DOMAIN flight
    <3>1. /\ DOMAIN flight' = DOMAIN flight \cup {t} /\ flight'[t] = c
          /\ \A u \in DOMAIN flight : flight'[u] = flight[u]
      BY <1>3, <2>5 DEF Refresh
    <3>2. \A u \in DOMAIN flight' :
            (flight[u] \in Calls /\ Working(flight[u]) /\ calls[flight[u]].token = u)'
      <4>1. ASSUME NEW u \in DOMAIN flight
            PROVE  (flight[u] \in Calls /\ Working(flight[u]) /\ calls[flight[u]].token = u)'
        <5>1. PICK e \in Calls \ {c} : e = flight[u]
          BY <2>3
        <5>2. Working(e)' /\ calls'[e].token = u
          BY <1>0, <1>1, <2>1, <5>1 DEF InFlight
        <5> QED
          BY <3>1, <5>1, <5>2
      <4> QED
        BY <2>1, <2>2, <2>5, <3>1, <4>1
    <3>3. \A d \in Calls : Working(d)' =>
            calls'[d].token \in DOMAIN flight' /\ flight'[calls'[d].token] = d
      BY <1>0, <1>1, <2>1, <3>1 DEF InFlight
    <3>4. \A d \in Calls : Pc(d)' = "joined" => calls'[d].token \in DOMAIN flight'
      BY <1>0, <1>1, <2>1, <2>5, <3>1 DEF InFlight
    <3> QED
      BY <3>2, <3>3, <3>4 DEF InFlight
  <2> QED
    BY <2>4, <2>5
<1>4. ASSUME NEW c \in Calls, ReadSession(c) PROVE InFlight'
  <2>1. /\ Pc(c) = "read" /\ calls'[c].token = calls[c].token /\ UNCHANGED flight
        /\ Pc(c)' \in {"rotate", "reject"}
        /\ \A d \in Calls \ {c} : calls'[d] = calls[d]
    BY <1>0, <1>4, Deciding
  <2>2. Working(c) /\ Working(c)'
    BY <2>1 DEF Working, WorkingPcs
  <2>3. \A d \in Calls : (Working(d)' <=> Working(d)) /\ calls'[d].token = calls[d].token
    BY <1>1, <2>1, <2>2
  <2>4. \A d \in Calls : Pc(d)' = "joined" => Pc(d) = "joined"
    BY <1>1, <2>1
  <2> QED
    BY <1>0, <2>1, <2>3, <2>4 DEF InFlight
<1>5. ASSUME NEW c \in Calls, NEW y, Goes(c, y) PROVE InFlight'
  <2>1. /\ ~Working(c) /\ ~Working(c)' /\ Pc(c)' # "joined" /\ UNCHANGED flight
        /\ \A d \in Calls \ {c} : calls'[d] = calls[d]
    BY <1>0, <1>5, Going DEF Working
  <2> QED
    BY <1>0, <1>1, <2>1 DEF InFlight
<1>6. ASSUME NEW c \in Calls, NEW pc, NEW r, Lands(c, pc, r) PROVE InFlight'
  <2> DEFINE t == calls[c].token
  <2>1. /\ flight' = Landed(t)
        /\ \A d \in Party(c) : Pc(d)' = pc
        /\ \A d \in Calls \ Party(c) : calls'[d] = calls[d]
    BY <1>0, <1>6, Landing
  <2>2. Working(c) /\ c \in Party(c) /\ pc \notin WorkingPcs \cup {"joined"}
    BY <1>6 DEF Lands, Party, WorkingPcs
  <2>3. t \in DOMAIN flight /\ flight[t] = c
    BY <1>0, <2>2 DEF InFlight
  <2>4. /\ DOMAIN flight' = DOMAIN flight \ {t}
        /\ \A u \in DOMAIN flight \ {t} : flight'[u] = flight[u]
    BY <2>1 DEF Landed
  <2>5. ASSUME NEW u \in DOMAIN flight \ {t}
        PROVE  flight[u] \in Calls \ Party(c)
    BY <1>0, <2>3 DEF InFlight, Party, Working, WorkingPcs
  <2>6. ASSUME NEW d \in Calls, Working(d)' \/ Pc(d)' = "joined"
        PROVE  d \notin Party(c) /\ calls'[d] = calls[d] /\ calls[d].token # t
    <3>1. d \notin Party(c)
      BY <2>1, <2>2, <2>6 DEF Working
    <3>2. calls'[d] = calls[d] /\ (Working(d) \/ Pc(d) = "joined")
      BY <1>1, <2>1, <2>6, <3>1
    <3> QED
      BY <1>0, <2>3, <3>1, <3>2 DEF Party, InFlight
  <2>7. \A u \in DOMAIN flight' :
          (flight[u] \in Calls /\ Working(flight[u]) /\ calls[flight[u]].token = u)'
    <3>1. ASSUME NEW u \in DOMAIN flight \ {t}
          PROVE  (flight[u] \in Calls /\ Working(flight[u]) /\ calls[flight[u]].token = u)'
      <4>1. PICK e \in Calls \ Party(c) : e = flight[u]
        BY <2>5
      <4>2. Working(e)' /\ calls'[e].token = u
        BY <1>0, <1>1, <2>1, <4>1 DEF InFlight
      <4> QED
        BY <2>4, <4>1, <4>2
    <3> QED
      BY <2>4, <3>1
  <2>8. \A d \in Calls : Working(d)' =>
          calls'[d].token \in DOMAIN flight' /\ flight'[calls'[d].token] = d
    BY <1>0, <1>1, <2>4, <2>6 DEF InFlight
  <2>9. \A d \in Calls : Pc(d)' = "joined" => calls'[d].token \in DOMAIN flight'
    BY <1>0, <1>1, <2>4, <2>6 DEF InFlight
  <2> QED
    BY <2>7, <2>8, <2>9 DEF InFlight
<1> QED
  BY <1>2, <1>3, <1>4, <1>5, <1>6, StepMoves DEF Moves

(* What Watch adds to what a call has seen.                                *)
LEMMA Watching ==
    ASSUME Shape, Watch, NEW c \in Calls, Running(c)'
    PROVE  /\ (row'.session # 0) \in seen'[c]
           /\ Running(c) => seen[c] \subseteq seen'[c]
           /\ \A e \in Calls : Pc(c)' = "joined" /\ flight'[calls'[c].token] = e =>
                seen[e] \subseteq seen'[c]
           /\ Pc(c)' # "joined" /\ Running(c) =>
                seen'[c] = seen[c] \cup {row'.session # 0}
<1> DEFINE joined == UNION {seen[d] : d \in {e \in Calls :
                        calls'[c].pc = "joined" /\ flight'[calls'[c].token] = e}}
<1>1. seen'[c] = (IF calls[c] = Idle THEN {row.session # 0} ELSE seen[c])
                   \cup {row'.session # 0} \cup joined
  BY DEF Watch, Running
<1>2. Pc(c)' = calls'[c].pc
  BY DEF Pc
<1>3. \A e \in Calls : Pc(c)' = "joined" /\ flight'[calls'[c].token] = e => seen[e] \subseteq joined
  BY <1>2
<1>4. Pc(c)' # "joined" => joined = {}
  BY <1>2
<1> HIDE DEF joined
<1>5. Running(c) => seen'[c] = seen[c] \cup {row'.session # 0} \cup joined
  BY <1>1 DEF Running
<1> QED
  BY <1>1, <1>3, <1>4, <1>5

(* Who waits at the end of a step waits for a call that worked before it.  *)
LEMMA JoinedBefore ==
    ASSUME Inv, Next, NEW d \in Calls, Pc(d)' = "joined"
    PROVE  \E e \in Calls :
             /\ flight'[calls'[d].token] = e /\ Running(e) /\ Running(e)' /\ Pc(e)' # "joined"
             /\ Running(d) /\ Running(d)'
<1>0. Shape /\ InFlight /\ InFlight'
  BY InFlightKept DEF Inv
<1>1. PICK e \in Calls : e = flight'[calls'[d].token] /\ Working(e)' /\ calls'[e].token = calls'[d].token
  BY <1>0 DEF InFlight
<1>2. Running(d)' /\ Running(e)' /\ Pc(e)' # "joined"
  BY <1>1 DEF Pc, Working, WorkingPcs
<1>3. \A c \in Calls : calls'[c] = calls[c] => Running(c)' = Running(c)
  BY DEF Running
<1>4. CASE Apart
  BY <1>1, <1>2, <1>3, <1>4 DEF Apart
<1>5. ASSUME NEW c \in Calls, Moves(c)
      PROVE  (Running(d)' => Running(d)) /\ (Running(e)' => Running(e))
  <2>1. CASE Refresh(c)
    BY <1>0, <1>3, <2>1, Taking
  <2>2. CASE ReadSession(c)
    BY <1>0, <1>3, <2>2, Deciding
  <2>3. CASE \E y : Goes(c, y)
    <3>1. d # c /\ e # c
      BY <1>0, <1>1, <2>3, Going DEF Working
    <3> QED
      BY <1>0, <1>3, <2>3, <3>1, Going
  <2>4. CASE \E pc, t : Lands(c, pc, t)
    <3>1. ASSUME NEW f \in Calls PROVE Running(f)' => Running(f)
      BY <1>0, <1>3, <2>4, Landing
    <3> QED
      BY <3>1
  <2> QED
    BY <1>5, <2>1, <2>2, <2>3, <2>4 DEF Moves
<1> QED
  BY <1>1, <1>2, <1>4, <1>5, StepMoves

LEMMA WitnessedKept == ASSUME Inv, Next PROVE Witnessed'
<1>0. Shape /\ InFlight /\ Witnessed /\ Watch
  BY StepMoves DEF Inv
<1>1. ASSUME NEW d \in Calls, Pc(d)' = "joined"
      PROVE  (seen[flight[calls[d].token]] \subseteq seen[d])'
  <2>1. PICK e \in Calls :
             /\ flight'[calls'[d].token] = e /\ Running(e) /\ Running(e)' /\ Pc(e)' # "joined"
             /\ Running(d) /\ Running(d)'
    BY <1>1, JoinedBefore
  <2>2. seen'[e] = seen[e] \cup {row'.session # 0}
    BY <1>0, <2>1, Watching
  <2>3. seen[e] \subseteq seen'[d] /\ (row'.session # 0) \in seen'[d]
    BY <1>0, <1>1, <2>1, Watching
  <2> QED
    BY <2>1, <2>2, <2>3
<1>2. ASSUME NEW d \in Calls, calls'[d] = calls[d]
      PROVE  /\ Pc(d)' = "rotate" => TRUE \in seen'[d]
             /\ Pc(d)' \in {"reject", "refused"} => FALSE \in seen'[d]
  <2>1. Pc(d)' = Pc(d) /\ Running(d)' = Running(d)
    BY <1>2 DEF Pc, Running
  <2>2. Pc(d) # "idle" => Running(d)
    BY DEF Pc
  <2> QED
    BY <1>0, <2>1, <2>2, Watching DEF Witnessed
<1>3. ASSUME NEW c \in Calls, Moves(c), NEW d \in Calls
      PROVE  /\ Pc(d)' = "rotate" => TRUE \in seen'[d]
             /\ Pc(d)' \in {"reject", "refused"} => FALSE \in seen'[d]
  <2>1. CASE Refresh(c)
    <3>1. Pc(c)' \in {"joined", "read"} /\ (d # c => calls'[d] = calls[d])
      BY <1>0, <2>1, Taking
    <3> QED
      BY <1>2, <3>1
  <2>2. CASE ReadSession(c)
    <3>1. /\ d # c => calls'[d] = calls[d]
          /\ Running(c)' /\ row' = row
          /\ \/ Pc(c)' = "rotate" /\ row.session # 0
             \/ Pc(c)' = "reject" /\ row.session = 0
      BY <1>0, <2>2, Deciding
    <3>2. (row'.session # 0) \in seen'[c]
      BY <1>0, <3>1, Watching
    <3>3. CASE Pc(c)' = "rotate" /\ row.session # 0
      <4>1. TRUE \in seen'[c]
        BY <3>1, <3>2, <3>3
      <4> QED
        BY <1>2, <3>1, <3>3, <4>1
    <3>4. CASE Pc(c)' = "reject" /\ row.session = 0
      <4>1. FALSE \in seen'[c]
        BY <3>1, <3>2, <3>4
      <4> QED
        BY <1>2, <3>1, <3>4, <4>1
    <3> QED
      BY <3>1, <3>3, <3>4
  <2>3. ASSUME NEW y, Goes(c, y)
        PROVE  /\ Pc(d)' = "rotate" => TRUE \in seen'[d]
               /\ Pc(d)' \in {"reject", "refused"} => FALSE \in seen'[d]
    <3>1. Pc(c)' \notin {"rotate", "reject", "refused"} /\ (d # c => calls'[d] = calls[d])
      BY <1>0, <2>3, Going DEF WorkingPcs
    <3> QED
      BY <1>2, <3>1
  <2>4. ASSUME NEW pc, NEW t, Lands(c, pc, t)
        PROVE  /\ Pc(d)' = "rotate" => TRUE \in seen'[d]
               /\ Pc(d)' \in {"reject", "refused"} => FALSE \in seen'[d]
    <3>1. CASE d \notin Party(c)
      BY <1>0, <1>2, <2>4, <3>1, Landing
    <3>2. CASE d \in Party(c)
      <4>1. Pc(d)' = pc /\ Running(d) /\ Running(d)' /\ Running(c)
        BY <1>0, <2>4, <3>2, Landing
      <4>2. pc \in {"refreshed", "refused", "lost"} /\ (pc = "refused" => Pc(c) = "reject") /\ Working(c)
        BY <2>4 DEF Lands
      <4>3. pc = "refused" => FALSE \in seen[c]
        BY <1>0, <4>2 DEF Witnessed
      <4>4. seen[c] \subseteq seen[d]
        BY <1>0, <3>2, <4>2 DEF Party, InFlight, Witnessed
      <4> QED
        BY <1>0, <4>1, <4>2, <4>3, <4>4, Watching
    <3> QED
      BY <3>1, <3>2
  <2> QED
    BY <1>3, <2>1, <2>2, <2>3, <2>4 DEF Moves
<1>4. ASSUME Apart, NEW d \in Calls
      PROVE  /\ Pc(d)' = "rotate" => TRUE \in seen'[d]
             /\ Pc(d)' \in {"reject", "refused"} => FALSE \in seen'[d]
  BY <1>2, <1>4 DEF Apart
<1> QED
  BY <1>1, <1>3, <1>4, StepMoves DEF Witnessed

LEMMA LinksSpentKept == ASSUME Inv, Next PROVE LinksSpent'
<1>0. Shape /\ LinksSpent /\ RowMoves /\ row.link \in Nat /\ issued \in Nat
  BY StepMoves DEF Inv, Shape
<1>1. row'.link <= issued'
  BY <1>0 DEF LinksSpent, RowMoves
(* A link that was handed out is not handed out again.                     *)
<1>2. ASSUME NEW l \in 1..issued, row.link # l
      PROVE  l \in 1..issued' /\ row'.link # l
  BY <1>0, <1>2 DEF RowMoves
<1>3. ASSUME NEW d \in Calls, calls'[d] = calls[d]
      PROVE  Running(d)' /\ calls'[d].op = "reset" =>
               /\ calls'[d].token \in 1..issued'
               /\ Pc(d)' \in {"endSession", "ended"} => row'.link # calls'[d].token
  <2>1. Pc(d)' = Pc(d) /\ Running(d)' = Running(d)
    BY <1>3 DEF Pc, Running
  <2>2. Running(d) /\ calls[d].op = "reset" =>
          /\ calls[d].token \in 1..issued
          /\ Pc(d) \in {"endSession", "ended"} => row.link # calls[d].token
    BY <1>0 DEF LinksSpent
  <2>3. 1..issued \subseteq 1..issued'
    BY <1>0 DEF RowMoves
  <2> QED
    BY <1>2, <1>3, <2>1, <2>2, <2>3
<1>4. ASSUME UNCHANGED reported, NEW l \in reported'
      PROVE  l \in 1..issued' /\ row'.link # l
  BY <1>0, <1>2, <1>4 DEF LinksSpent
<1>5. CASE Apart
  BY <1>1, <1>3, <1>4, <1>5 DEF Apart, LinksSpent
<1>6. ASSUME NEW c \in Calls, Refresh(c) \/ ReadSession(c) PROVE LinksSpent'
  <2>1. /\ UNCHANGED reported /\ \A d \in Calls \ {c} : calls'[d] = calls[d]
        /\ calls[c].pc \notin {"find", "save", "clearLink", "endSession", "ended"}
        /\ OnRoute(calls[c]) /\ calls'[c].op = calls[c].op
    BY <1>0, <1>6, Taking, Deciding DEF Pc
  <2>2. calls'[c].op # "reset"
    BY <2>1 DEF OnRoute, Routed, RefreshPcs, AuthOps
  <2> QED
    BY <1>1, <1>3, <1>4, <2>1, <2>2 DEF LinksSpent
<1>7. ASSUME NEW c \in Calls, NEW pc, NEW t, Lands(c, pc, t) PROVE LinksSpent'
  <2>1. /\ UNCHANGED reported /\ \A d \in Calls \ Party(c) : calls'[d] = calls[d]
        /\ \A d \in Party(c) : calls'[d].op # "reset"
    BY <1>0, <1>7, Landing
  <2> QED
    BY <1>1, <1>3, <1>4, <2>1 DEF LinksSpent
<1>8. ASSUME NEW c \in Calls, NEW y, Goes(c, y) PROVE LinksSpent'
  <2>1. /\ \A d \in Calls \ {c} : calls'[d] = calls[d]
        /\ Running(c)' => Advances(calls[c], calls'[c])
        /\ Running(c)' => Pc(c)' = calls'[c].pc
    BY <1>0, <1>8, Going DEF Pc
  <2>2. ASSUME Running(c)', calls'[c].op = "reset"
        PROVE  /\ calls'[c].token \in 1..issued'
               /\ Pc(c)' \in {"endSession", "ended"} => row'.link # calls'[c].token
    <3>1. calls'[c].token \in 1..issued /\ calls'[c].token \in 1..issued'
      BY <1>0, <2>1, <2>2 DEF Advances, RowMoves
    <3>2. CASE calls'[c].pc = "endSession"
      BY <2>1, <2>2, <3>1, <3>2 DEF Advances
    <3>3. CASE calls'[c].pc = "ended"
      <4>1. /\ Running(c) /\ calls[c].op = "reset" /\ calls[c].pc = "endSession"
            /\ calls'[c].token = calls[c].token
        BY <2>1, <2>2, <3>3 DEF Advances, Running
      <4>2. row.link # calls'[c].token
        BY <1>0, <4>1 DEF LinksSpent, Pc
      <4> QED
        BY <1>2, <3>1, <4>2
    <3> QED
      BY <2>1, <2>2, <3>1, <3>2, <3>3
  <2>3. ASSUME NEW l \in reported'
        PROVE  l \in 1..issued' /\ row'.link # l
    <3>1. CASE UNCHANGED reported
      BY <1>4, <3>1
    <3>2. CASE /\ At(c, "reset", "ended") /\ Running(c)
               /\ reported' = reported \cup {calls[c].token} /\ UNCHANGED row
      <4>1. calls[c].token \in 1..issued /\ row.link # calls[c].token
        BY <1>0, <3>2 DEF LinksSpent, At, Pc
      <4>2. l \in 1..issued /\ row.link # l
        BY <1>0, <3>2, <4>1 DEF LinksSpent
      <4> QED
        BY <1>2, <4>2
    <3> QED
      BY <1>8, <3>1, <3>2 DEF Goes, Reports
  <2> QED
    BY <1>1, <1>3, <2>1, <2>2, <2>3 DEF LinksSpent
<1> QED
  BY <1>5, <1>6, <1>7, <1>8, StepMoves DEF Moves

-----------------------------------------------------------------------------
LEMMA InitInv == ASSUME Init PROVE Inv
<1>1. /\ DOMAIN row = Fields /\ row.session \in Nat /\ row.link = 0 /\ issued \in Nat
      /\ ~row.registered => row.session = 0
  <2>1. PICK p \in Passwords, t \in {0, 1} :
          row = [NewAccount(p) EXCEPT !.registered = (t = 1), !.session = t] /\ issued = t
    BY DEF Init
  <2> DEFINE account == NewAccount(p)
  <2>2. DOMAIN account = Fields /\ account.link = 0
    BY DEF NewAccount, Fields
  <2> HIDE DEF account
  <2>3. /\ DOMAIN row = Fields /\ row.link = 0 /\ row.session = t
        /\ row.registered = (t = 1)
    BY <2>1, <2>2 DEF Fields, account
  <2>4. CASE t = 0
    BY <2>1, <2>3, <2>4
  <2>5. CASE t = 1
    <3>1. row.registered = TRUE
      BY <2>3, <2>5
    <3> QED
      BY <2>1, <2>3, <2>5, <3>1
  <2> QED
    BY <2>4, <2>5
<1>2. \A c \in Calls : ~Running(c) /\ Pc(c) = "idle"
  BY DEF Init, Running, Pc
<1>3. calls = [c \in Calls |-> Idle] /\ DOMAIN seen = Calls /\ DOMAIN flight = {} /\ reported = {}
  BY DEF Init
<1>4. Shape
  BY <1>1, <1>2, <1>3 DEF Shape
<1>5. InFlight
  BY <1>2, <1>3 DEF InFlight, Working, WorkingPcs
<1>6. Witnessed
  BY <1>2 DEF Witnessed
<1>7. LinksSpent
  BY <1>1, <1>2, <1>3 DEF LinksSpent
<1> QED
  BY <1>4, <1>5, <1>6, <1>7 DEF Inv

LEMMA StutterInv == ASSUME Inv, UNCHANGED vars PROVE Inv'
<1>1. Shape'
  BY DEF Inv, Shape, vars, Running, Pc, OnRoute, Selected
<1>2. InFlight'
  BY DEF Inv, InFlight, vars, Working, Running, Pc
<1>3. Witnessed'
  BY DEF Inv, Witnessed, vars, Running, Pc
<1>4. LinksSpent'
  BY DEF Inv, LinksSpent, vars, Running, Pc
<1> QED
  BY <1>1, <1>2, <1>3, <1>4 DEF Inv

(* The strengthening that the theorems need.                               *)
THEOREM SessionsInvariant == Spec => []Inv
<1>1. Init => Inv
  BY InitInv
<1>2. Inv /\ [Next]_vars => Inv'
  BY ShapeKept, InFlightKept, WitnessedKept, LinksSpentKept, StutterInv DEF Inv
<1> QED
  BY <1>1, <1>2, PTL DEF Spec

(* Who joins a refresh of client.ts or the service waits for a call that   *)
(* is at work on that token.                                               *)
THEOREM JoinedIsAnswered == Spec => []JoinedWorkGoesOn
<1>1. Inv => JoinedWorkGoesOn
  BY DEF Inv, InFlight, JoinedWorkGoesOn, Working, WorkingPcs
<1> QED
  BY <1>1, SessionsInvariant, PTL

(* A reset link whose use resetPassword reported is not accepted again.    *)
THEOREM UsedLinkStaysDead == Spec => []UsedLinkIsDead
<1>1. Inv => UsedLinkIsDead
  BY DEF Inv, LinksSpent, UsedLinkIsDead
<1> QED
  BY <1>1, SessionsInvariant, PTL

(* A refresh stores a session only if one was stored while it ran.         *)
THEOREM SessionNotBroughtBack == Spec => NotBroughtBack
<1>1. Inv /\ [Next]_vars =>
        [\A c \in Calls : Pc(c) = "rotate" /\ row'.session # row.session => TRUE \in seen[c]]_vars
  BY DEF Inv, Witnessed
<1> QED
  BY <1>1, SessionsInvariant, PTL DEF Spec, NotBroughtBack

(* A browser is refused a refresh only if no session was stored at some    *)
(* moment of that call or of the refresh it joined.                        *)
THEOREM KeptOrLapsed == Spec => KeptUnlessLapsed
<1>1. Inv /\ [Next]_vars =>
        [\A c \in Calls : Pc(c) = "refused" /\ calls'[c] = Idle => FALSE \in seen[c]]_vars
  BY DEF Inv, Witnessed
<1> QED
  BY <1>1, SessionsInvariant, PTL DEF Spec, KeptUnlessLapsed
=============================================================================
