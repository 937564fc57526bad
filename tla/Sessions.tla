------------------------------ MODULE Sessions ------------------------------
(***************************************************************************)
(* One account, its row in users, the API calls that touch the row, and    *)
(* one browser that uses the account: AuthService, UsersService, the user  *)
(* part of AdminService, JwtStrategy, and the frontend's client.ts,        *)
(* auth.api.ts and auth.store.ts.                                          *)
(*                                                                         *)
(* Every statement and every hash is awaited, so calls interleave between  *)
(* them.  A call is made by the browser, or from elsewhere: another        *)
(* device, a link in a mail, an administrator.  MaxCalls bounds the calls. *)
(***************************************************************************)
EXTENDS Integers, FiniteSets

CONSTANTS Calls, MaxCalls, Passwords, None

ASSUME MaxCallsAssumption == MaxCalls \in Nat /\ None \notin Calls

VARIABLES
    row,      \* the account's row
    calls,    \* what each call slot is doing
    flight,   \* refreshInFlight: each refresh token under way -> the call that refreshes it
    browser,  \* tokens in memory, in the cookie and in sessionStorage, and the store
    issued,   \* refresh tokens and links handed out so far
    begun, reported, seen   \* bound, and history: links used, sessions seen

vars == <<row, calls, flight, browser, issued, begun, reported, seen>>

Idle == [op |-> "none"]

(* Mutant: findOne loads every column. *)
AllSelected == DOMAIN row

(* The columns findOne loads, so that save writes them back.  The others   *)
(* are select: false.                                                      *)
Selected == {"active", "role", "email", "linkDue"}

Loaded == [f \in Selected |-> row[f]]

NewAccount(p) ==
    [registered |-> TRUE, password |-> p, active |-> TRUE, role |-> "shipper",
     email |-> "new", session |-> 0, link |-> 0, linkDue |-> FALSE]

(* Nobody has registered yet, or the browser has, and holds token 1.       *)
Init ==
    /\ \E p \in Passwords, t \in {0, 1} :
         /\ row = [NewAccount(p) EXCEPT !.registered = (t = 1), !.session = t]
         /\ browser = [access |-> IF t = 1 THEN "fresh" ELSE "none",
                       cookie |-> t = 1, stored |-> t, shown |-> t = 1]
         /\ issued = t
    /\ calls = [c \in Calls |-> Idle]
    /\ flight = [t \in {} |-> None]
    /\ begun = 0 /\ reported = {} /\ seen = [c \in Calls |-> {}]

-----------------------------------------------------------------------------
(* Calls. *)

At(c, op, pc) == calls[c].op = op /\ calls[c].pc = pc
Running(c) == calls[c] # Idle
Pc(c) == IF Running(c) THEN calls[c].pc ELSE "idle"

Goto(c, pc) == calls' = [calls EXCEPT ![c].pc = pc]
End(c) == calls' = [calls EXCEPT ![c] = Idle]
Browsing(c) == Running(c) /\ calls[c].by = "browser"

Begin(c, op, by, pc, p, t) ==
    /\ ~Running(c) /\ begun < MaxCalls
    /\ begun' = begun + 1
    /\ calls' = [calls EXCEPT ![c] =
         [op |-> op, by |-> by, pc |-> pc, password |-> p, token |-> t,
          copy |-> None, retried |-> FALSE]]
    /\ UNCHANGED <<row, flight, browser, issued, reported>>

RowStep(r) == row' = r /\ UNCHANGED <<flight, browser, issued, begun, reported>>
Quietly == UNCHANGED <<row, flight, browser, issued, begun, reported>>

(* Authenticated calls send the cookie, or the token held in memory.       *)
Authorized == browser.cookie \/ browser.access = "fresh"

-----------------------------------------------------------------------------
(* register: look the email up, hash, insert.  The unique index refuses a  *)
(* second insert.                                                          *)
Register(c, by, p) == Begin(c, "register", by, "find", p, 0)

FindEmail(c) ==
    /\ At(c, "register", "find")
    /\ IF row.registered THEN End(c) ELSE Goto(c, "insert")
    /\ Quietly

InsertUser(c) ==
    /\ At(c, "register", "insert")
    /\ IF row.registered THEN End(c) /\ Quietly
       ELSE RowStep(NewAccount(calls[c].password)) /\ Goto(c, "setVerify")

SetVerificationToken(c) ==
    /\ At(c, "register", "setVerify")
    /\ RowStep([row EXCEPT !.email = "mailed"])
    /\ Goto(c, "store")

(* LocalStrategy reads the user and compares the password; login then      *)
(* looks at the user it read.                                              *)
Login(c, by, p) == Begin(c, "login", by, "find", p, 0)

ValidateUser(c) ==
    /\ At(c, "login", "find")
    /\ IF row.registered /\ row.password = calls[c].password /\ row.active
       THEN Goto(c, "store") ELSE End(c)
    /\ Quietly

(* The pages of register and login keep the tokens of the answer.          *)
Persist(t) ==
    browser' = [access |-> "fresh", cookie |-> TRUE, stored |-> t, shown |-> TRUE]

(* generateTokens, the hash, and UPDATE users SET refresh_token.           *)
StoreToken(c) ==
    /\ Running(c) /\ calls[c].op \in {"register", "login"} /\ calls[c].pc = "store"
    /\ issued' = issued + 1
    /\ row' = [row EXCEPT !.session = issued']
    /\ calls' = [calls EXCEPT ![c].pc = "answer", ![c].token = issued']
    /\ UNCHANGED <<flight, browser, begun, reported>>

Answer(c) ==
    /\ Pc(c) = "answer"
    /\ End(c)
    /\ IF Browsing(c) THEN Persist(calls[c].token) ELSE UNCHANGED browser
    /\ UNCHANGED <<row, flight, issued, begun, reported>>

-----------------------------------------------------------------------------
(* Mutant: the whole token is compared. *)
MatchesExactly(token, stored) == token = stored

(* refresh.  bcrypt compares 72 bytes, which for the refresh token of an   *)
(* account are the header and the start of its id: tokens of one account   *)
(* do not differ there.                                                    *)
Matches(token, stored) == stored # 0

RefreshElsewhere(c, t) == Begin(c, "refresh", "elsewhere", "sent", None, t)

(* A refresh of the token that is under way is joined, not repeated.       *)
Refresh(c) ==
    /\ Pc(c) = "sent"
    /\ LET t == calls[c].token IN
       IF t \in DOMAIN flight THEN Goto(c, "joined") /\ UNCHANGED flight
       ELSE Goto(c, "read") /\ flight' = [u \in DOMAIN flight \cup {t} |-> IF u = t THEN c ELSE flight[u]]
    /\ UNCHANGED <<row, browser, issued, begun, reported>>

(* Mutant: the stored token is not looked at. *)
ReadUserOnly(c) ==
    /\ Pc(c) = "read"
    /\ Goto(c, IF row.registered THEN "rotate" ELSE "reject")
    /\ Quietly

ReadSession(c) ==
    /\ Pc(c) = "read"
    /\ Goto(c, IF row.registered /\ Matches(calls[c].token, row.session)
               THEN "rotate" ELSE "reject")
    /\ Quietly

Party(c) == {d \in Calls : d = c \/ (Pc(d) = "joined" /\ calls[d].token = calls[c].token)}

Landed(t) == [u \in DOMAIN flight \ {t} |-> flight[u]]

(* Mutant: an error leaves the entry in refreshInFlight. *)
LandUnlessFailed(c, pc, t) ==
    /\ flight' = IF pc = "refused" THEN flight ELSE Landed(calls[c].token)
    /\ calls' = [d \in Calls |->
          IF d \in Party(c) THEN [calls[d] EXCEPT !.pc = pc, !.token = t] ELSE calls[d]]

(* The shared promise settles for all who wait, and leaves the map.        *)
Land(c, pc, t) ==
    /\ flight' = Landed(calls[c].token)
    /\ calls' = [d \in Calls |->
          IF d \in Party(c) THEN [calls[d] EXCEPT !.pc = pc, !.token = t] ELSE calls[d]]

Rotate(c) ==
    /\ Pc(c) = "rotate"
    /\ issued' = issued + 1
    /\ row' = [row EXCEPT !.session = issued']
    /\ Land(c, "refreshed", issued')
    /\ UNCHANGED <<browser, begun, reported>>

Reject(c) ==
    /\ Pc(c) = "reject"
    /\ Land(c, "refused", calls[c].token)
    /\ UNCHANGED <<row, browser, issued, begun, reported>>

-----------------------------------------------------------------------------
(* apiClient: on 401 it refreshes and repeats the call once; when there is *)
(* nothing to refresh with, or the refresh fails, it drops the tokens.     *)
AuthOps == {"me", "profile", "changePassword", "logout"}

Sent == IF Authorized THEN "guard" ELSE "stale"

(* The profile page waits for the user; the settings page and Sign out, on *)
(* every page of the dashboard, do not.                                    *)
Call(c, op, p) ==
    /\ op \in AuthOps /\ (op = "profile" => browser.shown)
    /\ Begin(c, op, "browser", Sent, p, 0)

CallElsewhere(c, op, p) ==
    op \in AuthOps \ {"me"} /\ Begin(c, op, "elsewhere", "guard", p, 0)

(* 401: the first time the browser refreshes, the second time it gives up. *)
Unauthorized(c) ==
    IF Browsing(c) /\ ~calls[c].retried THEN Goto(c, "refresh") ELSE End(c)

(* JwtStrategy.validate, before the handler of any authenticated route.    *)
Guard(c) ==
    /\ Pc(c) = "guard"
    /\ IF row.registered /\ row.active
       THEN Goto(c, CASE calls[c].op = "me" -> "done" [] calls[c].op = "profile" -> "find"
                      [] calls[c].op = "changePassword" -> "compare"
                      [] calls[c].op = "logout" -> "endSession")
       ELSE Unauthorized(c)
    /\ Quietly

ExpiredToken(c) == Pc(c) = "stale" /\ Unauthorized(c) /\ Quietly

(* refreshAccessToken reads the token from sessionStorage and posts it.    *)
SendRefresh(c) ==
    /\ Pc(c) = "refresh"
    /\ calls' = [calls EXCEPT ![c].token = browser.stored,
                              ![c].pc = IF browser.stored = 0 THEN "drop" ELSE "sent"]
    /\ Quietly

Refreshed(c) ==
    /\ Pc(c) = "refreshed"
    /\ IF Browsing(c)
       THEN /\ browser' = [browser EXCEPT !.access = "fresh", !.cookie = TRUE,
                                          !.stored = calls[c].token]
            /\ calls' = [calls EXCEPT ![c].pc = "guard", ![c].retried = TRUE]
       ELSE End(c) /\ UNCHANGED browser
    /\ UNCHANGED <<row, flight, issued, begun, reported>>

(* The store forgets the user when fetchCurrentUser or logout fails.       *)
DropTokens(c) ==
    /\ Pc(c) \in {"refused", "drop", "lost"}
    /\ End(c)
    /\ IF Browsing(c)
       THEN browser' = [browser EXCEPT !.access = "none", !.stored = 0,
                          !.shown = @ /\ calls[c].op \notin {"me", "logout"}]
       ELSE UNCHANGED browser
    /\ UNCHANGED <<row, flight, issued, begun, reported>>

(* fetchCurrentUser, and the profile page once it has saved: the store     *)
(* shows the user of the answer, also to a browser that has logged out     *)
(* meanwhile.                                                              *)
ShowUser(c) ==
    /\ Pc(c) = "done"
    /\ End(c)
    /\ browser' = [browser EXCEPT !.shown = TRUE]
    /\ UNCHANGED <<row, flight, issued, begun, reported>>

(* The access token and the cookie last fifteen minutes.                   *)
Expire ==
    /\ Authorized
    /\ browser' = [browser EXCEPT !.cookie = FALSE,
                     !.access = IF @ = "fresh" THEN "stale" ELSE @]
    /\ UNCHANGED <<row, calls, flight, issued, begun, reported>>

(* A reload forgets what is in memory; the pages then ask for the user.    *)
Reload ==
    /\ browser.shown /\ \A c \in Calls : ~Browsing(c)
    /\ browser' = [browser EXCEPT !.access = "none", !.shown = FALSE]
    /\ UNCHANGED <<row, calls, flight, issued, begun, reported>>

-----------------------------------------------------------------------------
(* logout *)
EndSession(c) ==
    /\ Pc(c) = "endSession"
    /\ RowStep([row EXCEPT !.session = 0])
    /\ Goto(c, "ended")

(* The browser that logged out clears its tokens and its cookie; the page  *)
(* that has changed the password keeps them for a moment.                  *)
Ended(c) ==
    /\ Pc(c) = "ended"
    /\ IF At(c, "changePassword", "ended") /\ Browsing(c) THEN Goto(c, "signOut") ELSE End(c)
    /\ browser' = IF At(c, "logout", "ended") /\ Browsing(c)
                  THEN [access |-> "none", cookie |-> FALSE, stored |-> 0, shown |-> FALSE]
                  ELSE browser
    /\ reported' = IF calls[c].op = "reset" THEN reported \cup {calls[c].token} ELSE reported
    /\ UNCHANGED <<row, flight, issued, begun>>

(* Then, a second and a half after the answer, it logs out, if it has not  *)
(* been left (Fail).                                                       *)
SignOut(c) ==
    /\ At(c, "changePassword", "signOut")
    /\ calls' = [calls EXCEPT ![c].op = "logout", ![c].pc = Sent, ![c].retried = FALSE]
    /\ Quietly

(* UsersService.update reads the user, hashes a new password, and saves    *)
(* the user it read: every selected column as it was then.                 *)
FindUser(c) ==
    /\ Pc(c) = "find" /\ calls[c].op \in {"profile", "changePassword", "reset"}
    /\ calls' = [calls EXCEPT ![c].copy = Loaded, ![c].pc = "save"]
    /\ Quietly

Saved(c, changes) ==
    [f \in DOMAIN row |-> IF f \in DOMAIN changes THEN changes[f]
                          ELSE IF f \in DOMAIN calls[c].copy THEN calls[c].copy[f] ELSE row[f]]

SaveUser(c) ==
    /\ Pc(c) = "save"
    /\ IF calls[c].op = "profile"
       THEN RowStep(Saved(c, <<>>)) /\ IF Browsing(c) THEN Goto(c, "done") ELSE End(c)
       ELSE /\ RowStep(Saved(c, [password |-> calls[c].password]))
            /\ Goto(c, IF calls[c].op = "reset" THEN "clearLink" ELSE "endSession")

(* changePassword: a wrong current password is answered with 401 as well.  *)
ComparePassword(c) ==
    /\ At(c, "changePassword", "compare")
    /\ Goto(c, "find") \/ Unauthorized(c)
    /\ Quietly

-----------------------------------------------------------------------------
(* forgotPassword and resetPassword. *)
ForgotPassword(c) == row.registered /\ Begin(c, "forgot", "elsewhere", "setLink", None, 0)

SetResetToken(c) ==
    /\ At(c, "forgot", "setLink")
    /\ issued' = issued + 1
    /\ row' = [row EXCEPT !.link = issued', !.linkDue = TRUE]
    /\ End(c)
    /\ UNCHANGED <<flight, browser, begun, reported>>

ResetPassword(c, p) ==
    /\ row.link # 0 /\ row.linkDue
    /\ Begin(c, "reset", "elsewhere", "find", p, row.link)

ClearResetToken(c) ==
    /\ At(c, "reset", "clearLink")
    /\ RowStep([row EXCEPT !.link = 0, !.linkDue = FALSE])
    /\ Goto(c, "endSession")

(* The hour, or the day, is over. *)
LapseLinks ==
    /\ row.linkDue
    /\ RowStep([row EXCEPT !.linkDue = FALSE])
    /\ UNCHANGED calls

VerifyEmail(c) == row.email = "mailed" /\ Begin(c, "verify", "elsewhere", "mark", None, 0)

MarkEmailVerified(c) ==
    /\ At(c, "verify", "mark")
    /\ RowStep([row EXCEPT !.email = "verified"])
    /\ End(c)

(* AdminService: each checks the user it found and updates one column.     *)
DeactivateUser(c) == row.registered /\ row.active /\ Begin(c, "deactivate", "elsewhere", "update", None, 0)
ActivateUser(c) == row.registered /\ ~row.active /\ Begin(c, "activate", "elsewhere", "update", None, 0)
ChangeUserRole(c) == row.registered /\ Begin(c, "changeRole", "elsewhere", "update", None, 0)

UpdateUser(c) ==
    /\ Pc(c) = "update"
    /\ RowStep(CASE calls[c].op = "deactivate" -> [row EXCEPT !.active = FALSE]
                 [] calls[c].op = "activate" -> [row EXCEPT !.active = TRUE]
                 [] calls[c].op = "changeRole" -> [row EXCEPT !.role = "carrier"])
    /\ End(c)

-----------------------------------------------------------------------------
(* A statement throws, the answer is lost, or the page is left.  A refresh *)
(* takes those who joined it along, and the browser treats it as refused.  *)
Fail(c) ==
    /\ Running(c) /\ Pc(c) \notin {"refused", "drop", "lost", "joined", "refresh"}
    /\ CASE Pc(c) \in {"read", "rotate", "reject"} -> Land(c, "lost", calls[c].token)
         [] Pc(c) \in {"sent", "refreshed"} -> Goto(c, "lost") /\ UNCHANGED flight
         [] OTHER -> End(c) /\ UNCHANGED flight
    /\ browser' = [browser EXCEPT
         !.access = IF At(c, "logout", Pc(c)) /\ Browsing(c) THEN "none" ELSE @,
         !.stored = IF At(c, "logout", Pc(c)) /\ Browsing(c) THEN 0 ELSE @,
         !.shown = @ /\ ~(Browsing(c) /\ calls[c].op \in {"me", "logout"})]
    /\ UNCHANGED <<row, issued, begun, reported>>

Proceed(c) ==
    \/ FindEmail(c) \/ InsertUser(c) \/ SetVerificationToken(c)
    \/ ValidateUser(c) \/ StoreToken(c) \/ Answer(c)
    \/ Refresh(c) \/ ReadSession(c) \/ Rotate(c) \/ Reject(c)
    \/ Guard(c) \/ ExpiredToken(c) \/ SendRefresh(c) \/ Refreshed(c) \/ DropTokens(c) \/ ShowUser(c)
    \/ EndSession(c) \/ Ended(c) \/ SignOut(c) \/ FindUser(c) \/ SaveUser(c) \/ ComparePassword(c)
    \/ SetResetToken(c) \/ ClearResetToken(c) \/ MarkEmailVerified(c) \/ UpdateUser(c)

(* What the pages send.  The form of a reset needs the link of the mail.   *)
RegisterPage(c) == \E p \in Passwords : Register(c, "browser", p)
LoginPage(c) == \E p \in Passwords : Login(c, "browser", p)
ForgotPasswordPage(c) == ForgotPassword(c)
ResetPasswordPage(c) == \E p \in Passwords : ResetPassword(c, p)
SettingsPage(c) == \E p \in Passwords : Call(c, "changePassword", p)
ProfilePage(c) == Call(c, "profile", None)
DashboardPage(c) == Call(c, "me", None)
DashboardLayout(c) == Call(c, "logout", None)

Pages(c) ==
    \/ RegisterPage(c) \/ LoginPage(c) \/ ForgotPasswordPage(c) \/ ResetPasswordPage(c)
    \/ SettingsPage(c) \/ ProfilePage(c) \/ DashboardPage(c) \/ DashboardLayout(c)

Elsewhere(c) ==
    \/ \E p \in Passwords : Register(c, "elsewhere", p) \/ Login(c, "elsewhere", p)
    \/ \E op \in AuthOps, p \in Passwords : CallElsewhere(c, op, p)
    \/ \E t \in 1..issued : RefreshElsewhere(c, t)
    \/ VerifyEmail(c)
    \/ DeactivateUser(c) \/ ActivateUser(c) \/ ChangeUserRole(c)

(* History: whether a session was stored, at any moment of a call's life   *)
(* or of the refresh it joined.                                            *)
Watch ==
    seen' = [c \in Calls |->
       IF calls'[c] = Idle THEN {}
       ELSE (IF calls[c] = Idle THEN {row.session # 0} ELSE seen[c]) \cup {row'.session # 0}
            \cup UNION {seen[d] : d \in {e \in Calls :
                   calls'[c].pc = "joined" /\ flight'[calls'[c].token] = e}}]

Next ==
    /\ \/ \E c \in Calls : Proceed(c) \/ Pages(c) \/ Elsewhere(c) \/ Fail(c)
       \/ Expire \/ Reload \/ LapseLinks
    /\ Watch

Spec == Init /\ [][Next]_vars

-----------------------------------------------------------------------------
(* A refresh gives the account a session back only if one was stored at    *)
(* some moment of that refresh: after a logout, a password change or a     *)
(* reset, no refresh that begins later succeeds.                           *)
NotBroughtBack ==
    [][\A c \in Calls : Pc(c) = "rotate" /\ row'.session # row.session
          => TRUE \in seen[c]]_vars

(* However many calls of a browser are refused at once, and however their  *)
(* refreshes overlap those of other devices, the browser is refused a      *)
(* refresh only if at some moment no session was stored.                   *)
KeptUnlessLapsed ==
    [][\A c \in Calls : Pc(c) = "refused" /\ calls'[c] = Idle => FALSE \in seen[c]]_vars

(* A reset link whose use was reported is never accepted again, whatever   *)
(* other calls saved in the meantime.                                      *)
UsedLinkIsDead == row.link \notin reported

(* Who joins a refresh waits for a call that is at work on that token, so  *)
(* an entry never outlives its refresh, also when a statement throws.      *)
JoinedWorkGoesOn ==
    /\ \A t \in DOMAIN flight :
         Pc(flight[t]) \in {"read", "rotate", "reject"} /\ calls[flight[t]].token = t
    /\ \A c \in Calls : Pc(c) = "joined" => calls[c].token \in DOMAIN flight
=============================================================================
