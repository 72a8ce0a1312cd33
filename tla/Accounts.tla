------------------------------ MODULE Accounts ------------------------------
(***************************************************************************)
(* One account, its sessions, its API token and its mailed links:          *)
(* internal/auth over store/pg, the account pages of internal/web/account  *)
(* and the user commands of cmd/calendar.                                  *)
(*                                                                         *)
(* No operation of the service is a transaction: each statement commits on *)
(* its own, so a call is a sequence of steps, other calls step in between, *)
(* and a call may fail before any of its statements.  A call the code      *)
(* refuses ends.  Tokens and links are random, so a caller that presents   *)
(* one has been given it; passwords are members of a small set.  The rate  *)
(* limits of these calls are the subject of module Limiter.                *)
(***************************************************************************)
EXTENDS Integers, FiniteSets

CONSTANTS
    Calls,        \* requests and commands that run at the same time
    Sessions,     \* session ids (bound)
    Links,        \* mailed links (bound)
    Passwords,    \* passwords people choose
    Rejected,     \* one of them that ValidatePassword refuses
    SessionTTL, AbsoluteTTL, TouchInterval, SudoWindow, LinkTTL,
    MaxCalls,     \* bound: calls that are made
    MaxTime       \* bound: the last instant of the clock

NoPassword == "none"
NoSession  == 0
NoLink     == 0

\* What the constants must satisfy.
AccountsAssumption ==
    /\ Sessions \subseteq Nat \ {NoSession} /\ Links \subseteq Nat \ {NoLink}
    /\ NoPassword \notin Passwords /\ Rejected \in Passwords
    /\ {SessionTTL, AbsoluteTTL, TouchInterval, SudoWindow, LinkTTL} \subseteq Nat \ {0}
    /\ MaxCalls \in Nat /\ MaxTime \in Nat

VARIABLES
    user,      \* the row of users, with the link to Google of user_identities
    sess,      \* the sessions table
    apiToken,  \* the one row of api_tokens: "none", "active" or "revoked"
    links,     \* the email_tokens table
    calls,     \* the calls that are running
    made,      \* how many calls were made
    now,       \* the clock
    ended,     \* ghost: sessions that a finished change of the account was to end
    uses       \* ghost: how often each link was accepted

accountsVars == <<user, sess, apiToken, links, calls, made, now, ended, uses>>

User    == [exists : BOOLEAN, pw : Passwords \cup {NoPassword}, oldHash : BOOLEAN,
            verified : BOOLEAN, disabled : BOOLEAN, google : BOOLEAN]
Session == [st : {"none", "live", "gone"}, seen : Nat, exp : Nat, abs : Nat, reauth : Nat]
Link    == [st : {"none", "open", "used", "gone"}, purpose : {"verify", "reset"}, exp : Nat]


\* What a call is for, and where it is.
Ops == {"idle", "register", "user create", "login", "google", "link", "unlink", "change", "reset",
        "set-password", "disable", "enable", "forgot", "resend", "verify", "logout", "revoke",
        "revoke others", "reauth", "token", "revoke token"}
Points == {"idle", "cookie", "expire", "touch", "start", "rehash", "adopt", "link", "signup", "unlink",
           "hash", "drop", "delete", "issue", "verified", "mark", "session", "logout"}

Call    == [op : Ops, pc : Points, sess : Sessions \cup {NoSession}, cur : Passwords \cup {NoPassword},
            new : Passwords \cup {NoPassword}, link : Links \cup {NoLink}, reauth : Nat, seen : SUBSET Sessions]

Idle == [op |-> "idle", pc |-> "idle", sess |-> NoSession, cur |-> NoPassword,
         new |-> NoPassword, link |-> NoLink, reauth |-> 0, seen |-> {}]

AccountsTypeOK ==
    /\ user \in User
    /\ sess \in [Sessions -> Session]
    /\ apiToken \in {"none", "active", "revoked"}
    /\ links \in [Links -> Link]
    /\ calls \in [Calls -> Call]
    /\ made \in 0..MaxCalls /\ now \in 0..MaxTime
    /\ ended \subseteq Sessions
    /\ uses \in [Links -> Nat]
    /\ \A s \in Sessions : sess[s].exp <= sess[s].abs

-----------------------------------------------------------------------------
(* Statements of the store.  Each is one UPDATE, INSERT or DELETE. *)

LiveSessions == {s \in Sessions : sess[s].st = "live"}

\* SetUserPassword.
SetPasswordHash(p) == user' = [user EXCEPT !.pw = p, !.oldHash = FALSE]

\* DeleteUserSessionsExcept.
DeleteUserSessions(except) ==
    sess' = [s \in Sessions |-> IF sess[s].st = "live" /\ s # except
                                THEN [sess[s] EXCEPT !.st = "gone"] ELSE sess[s]]

\* DeleteSession.
DeleteSession(s) == sess' = [sess EXCEPT ![s].st = IF @ = "live" THEN "gone" ELSE @]

\* SetEmailVerified.
SetEmailVerified == user' = [user EXCEPT !.verified = TRUE]

\* Extend: a session never outlives its absolute end.
Extend(t, abs) == IF t + SessionTTL < abs THEN t + SessionTTL ELSE abs

\* StartSession: a new session is as good as a re-authentication.
NewSession == [st |-> "live", seen |-> now, reauth |-> now, abs |-> now + AbsoluteTTL,
               exp |-> Extend(now, now + AbsoluteTTL)]

\* CreateSession.
CreateSession ==
    \E s \in Sessions :
        /\ sess[s].st = "none" /\ \A t \in Sessions : t < s => sess[t].st # "none"
        /\ sess' = [sess EXCEPT ![s] = NewSession]

\* TouchSession and SetSessionReauth: no row, no effect.
TouchSession(s) ==
    sess' = IF sess[s].st # "live" THEN sess
            ELSE [sess EXCEPT ![s].seen = now, ![s].exp = Extend(now, sess[s].abs)]
SetSessionReauth(s) == sess' = IF sess[s].st # "live" THEN sess ELSE [sess EXCEPT ![s].reauth = now]

\* CreateIdentity and DeleteIdentity, the link to Google.
CreateIdentity == user' = [user EXCEPT !.google = TRUE]
DeleteIdentity == user' = [user EXCEPT !.google = FALSE]

\* SetUserDisabled.
SetUserDisabled(b) == user' = [user EXCEPT !.disabled = b]

\* DeleteEmailTokens.
DeleteEmailTokens(purpose) ==
    links' = [l \in Links |-> IF links[l].purpose = purpose /\ links[l].st \in {"open", "used"}
                              THEN [links[l] EXCEPT !.st = "gone"] ELSE links[l]]

\* CreateEmailToken.
CreateEmailToken(purpose) ==
    \E l \in Links :
        /\ links[l].st = "none" /\ \A k \in Links : k < l => links[k].st # "none"
        /\ links' = [links EXCEPT ![l] = [st |-> "open", purpose |-> purpose, exp |-> now + LinkTTL]]

\* ConsumeEmailToken: the link is claimed and read in one statement.
ConsumeEmailToken(l, purpose) ==
    /\ links[l].purpose = purpose /\ links[l].st = "open" /\ links[l].exp > now
    /\ links' = [links EXCEPT ![l].st = "used"]

-----------------------------------------------------------------------------
(* Calls. *)

At(c, op, pc) == calls[c].op = op /\ calls[c].pc = pc
Goto(c, pc)   == calls' = [calls EXCEPT ![c].pc = pc]
Done(c)       == calls' = [calls EXCEPT ![c] = Idle]
Rest          == UNCHANGED <<apiToken, made, now, ended, uses>>

\* A call arrives with the cookie of session s, or with none.
Arrive(c, op, s, cur, new, l) ==
    /\ calls[c] = Idle /\ made < MaxCalls
    /\ made' = made + 1
    /\ calls' = [calls EXCEPT ![c] = [Idle EXCEPT !.op = op, !.sess = s, !.cur = cur, !.new = new,
                    !.link = l, !.pc = IF s = NoSession THEN "start" ELSE "cookie"]]
    /\ UNCHANGED <<user, sess, apiToken, links, now, ended, uses>>

\* Guard.Session: the handler runs with the session, or without one.
Enter(c, s) ==
    calls' = [calls EXCEPT ![c].sess = s, ![c].pc = "start",
                           ![c].reauth = IF s = NoSession THEN 0 ELSE sess[s].reauth]

\* A session that is live, of an account that is enabled (GetSessionByTokenHash).
Known(s)   == sess[s].st = "live" /\ ~user.disabled
Expired(s) == now >= sess[s].exp \/ now >= sess[s].abs
NeedsTouch(s) == now - sess[s].seen >= TouchInterval

\* Authenticate: an expired session is deleted, one that was not seen for a while is
\* touched; both by a statement after the one that read it.
Authenticate(c) ==
    LET s == calls[c].sess
    IN  /\ Rest /\ UNCHANGED <<user, links>>
        /\ \/ /\ calls[c].pc = "cookie" /\ UNCHANGED sess
              /\ \/ ~Known(s) /\ Enter(c, NoSession)
                 \/ Known(s) /\ Expired(s) /\ Goto(c, "expire")
                 \/ Known(s) /\ ~Expired(s) /\ ~NeedsTouch(s) /\ Enter(c, s)
                 \/ Known(s) /\ ~Expired(s) /\ NeedsTouch(s) /\ Goto(c, "touch")
           \/ calls[c].pc = "expire" /\ DeleteSession(s) /\ Enter(c, NoSession)
           \/ calls[c].pc = "touch" /\ Enter(c, s) /\ TouchSession(s)

\* Fresh: the session confirmed who it is a short while before it was read.
Fresh(c) == now - calls[c].reauth < SudoWindow

\* A call is refused, a statement of it fails, or its client goes away: nothing more
\* is done.  Of a registration the statements that issue the link may fail alone.
Fail(c) ==
    /\ calls[c] # Idle
    /\ Done(c) /\ Rest /\ UNCHANGED <<user, sess, links>>

\* RequireUser: the handler runs for a session.
Signed(c, op) == At(c, op, "start") /\ calls[c].sess # NoSession

\* The first step of a change that is to end sessions: from now on the old password,
\* or the account, is not good for a new one.
Turn(c, mine, next) ==
    calls' = [calls EXCEPT ![c].pc = next, ![c].seen = LiveSessions \ {mine}]

\* Its second step: DeleteUserSessions.
Drop(c, mine) == DeleteUserSessions(mine) /\ ended' = ended \cup calls[c].seen

\* startSession: the new session replaces the one the caller had.
Welcome(c) ==
    \/ /\ calls[c].pc = "session" /\ CreateSession
       /\ IF calls[c].sess = NoSession THEN Done(c) ELSE Goto(c, "logout")
       /\ Rest /\ UNCHANGED <<user, links>>
    \/ /\ calls[c].pc = "logout" /\ DeleteSession(calls[c].sess) /\ Done(c)
       /\ Rest /\ UNCHANGED <<user, links>>

-----------------------------------------------------------------------------
(* Accounts and sign-in. *)

NewUser(p, verified, google) ==
    [exists |-> TRUE, pw |-> p, oldHash |-> FALSE, verified |-> verified,
     disabled |-> FALSE, google |-> google]

\* sendVerify: when the link cannot be issued the new account is signed in.
SendVerify(c) ==
    /\ calls[c].pc \in {"delete", "issue"}
    /\ Goto(c, "session") /\ Rest /\ UNCHANGED <<user, sess, links>>

\* Register: a new account confirms its address by a link before it signs in.
Register(c) ==
    /\ calls[c].op = "register"
    /\ \/ /\ calls[c].pc = "start" /\ ~user.exists /\ calls[c].new # Rejected
          /\ user' = NewUser(calls[c].new, FALSE, FALSE)
          /\ Goto(c, "delete") /\ Rest /\ UNCHANGED <<sess, links>>
       \/ SendVerify(c)

\* userCreate and CreateUser.
UserCreate(c) ==
    /\ At(c, "user create", "start") /\ ~user.exists /\ calls[c].new # Rejected
    /\ \E verified \in BOOLEAN : user' = NewUser(calls[c].new, verified, FALSE)
    /\ Done(c) /\ Rest /\ UNCHANGED <<sess, links>>

\* upgradeHash: a hash with outdated parameters is written anew.
UpgradeHash(c) ==
    /\ calls[c].pc = "rehash" /\ SetPasswordHash(calls[c].cur)
    /\ Goto(c, "session") /\ Rest /\ UNCHANGED <<sess, links>>

\* Login: the account is read once; the session is made by a later statement.
Login(c) ==
    /\ calls[c].op = "login"
    /\ \/ /\ calls[c].pc = "start" /\ user.exists /\ user.pw = calls[c].cur
          /\ ~user.disabled /\ user.verified
          /\ Goto(c, IF user.oldHash THEN "rehash" ELSE "session")
          /\ Rest /\ UNCHANGED <<user, sess, links>>
       \/ UpgradeHash(c)

\* ExternalLogin: by the linked identity, else by the address, else a new account.
ExternalLogin(c) ==
    /\ At(c, "google", "start")
    /\ \/ user.google /\ ~user.disabled /\ Goto(c, "session")
       \/ ~user.google /\ user.exists /\ ~user.disabled
            /\ Goto(c, IF ~user.verified /\ user.pw # NoPassword THEN "adopt" ELSE "link")
       \/ ~user.exists /\ Goto(c, "signup")
    /\ Rest /\ UNCHANGED <<user, sess, links>>

\* adopt: the password of an account nobody confirmed goes, and its sessions.
Adopt(c) ==
    /\ calls[c].op = "google" /\ UNCHANGED <<apiToken, links, made, now, uses>>
    /\ \/ /\ calls[c].pc = "adopt" /\ SetPasswordHash(NoPassword)
          /\ Turn(c, NoSession, "drop") /\ UNCHANGED <<sess, ended>>
       \/ /\ calls[c].pc = "drop" /\ Drop(c, NoSession)
          /\ Goto(c, "link") /\ UNCHANGED user

\* LinkIdentity, for a sign-in with Google or for an account that is signed in.
LinkIdentity(c) ==
    /\ \/ At(c, "google", "link") /\ Goto(c, "session")
       \/ Signed(c, "link") /\ Done(c)
    /\ CreateIdentity /\ Rest /\ UNCHANGED <<sess, links>>

\* externalSignup: the account and its identity in one transaction.
ExternalSignup(c) ==
    /\ At(c, "google", "signup") /\ ~user.exists
    /\ user' = NewUser(NoPassword, TRUE, TRUE)
    /\ Goto(c, "session") /\ Rest /\ UNCHANGED <<sess, links>>

\* unlinkGoogle and UnlinkIdentity: not the last way to sign in.
UnlinkIdentity(c) ==
    \/ /\ Signed(c, "unlink") /\ user.pw # NoPassword
       /\ Goto(c, "unlink") /\ Rest /\ UNCHANGED <<user, sess, links>>
    \/ /\ At(c, "unlink", "unlink") /\ DeleteIdentity
       /\ Done(c) /\ Rest /\ UNCHANGED <<sess, links>>

-----------------------------------------------------------------------------
(* Passwords. *)

\* ChangePassword: with the current password, or soon after a sign-in if there is none.
ChangePassword(c) ==
    /\ Signed(c, "change") /\ calls[c].new # Rejected
    /\ IF user.pw # NoPassword THEN user.pw = calls[c].cur ELSE Fresh(c)
    /\ Goto(c, "hash") /\ Rest /\ UNCHANGED <<user, sess, links>>

\* ResetPassword: the link is used up before the password is looked at.
ResetPassword(c) ==
    /\ At(c, "reset", "start")
    /\ ConsumeEmailToken(calls[c].link, "reset")
    /\ uses' = [uses EXCEPT ![calls[c].link] = @ + 1]
    /\ IF calls[c].new # Rejected THEN Goto(c, "hash") ELSE Done(c)
    /\ UNCHANGED <<user, sess, apiToken, made, now, ended>>

\* userSetPassword and SetPassword.
UserSetPassword(c) ==
    /\ At(c, "set-password", "start") /\ user.exists /\ calls[c].new # Rejected
    /\ Goto(c, "hash") /\ Rest /\ UNCHANGED <<user, sess, links>>

\* userToggle and SetDisabled.
SetDisabled(c) ==
    /\ user.exists /\ Rest /\ UNCHANGED <<sess, links>>
    /\ \/ At(c, "disable", "start") /\ SetUserDisabled(TRUE) /\ Turn(c, NoSession, "drop")
       \/ At(c, "enable", "start") /\ SetUserDisabled(FALSE) /\ Done(c)

Mine(c) == IF calls[c].op = "change" THEN calls[c].sess ELSE NoSession

\* Mutant: the sessions are deleted first, the password is written last.
SaveBackwards(c) ==
    /\ calls[c].op \in {"change", "reset", "set-password", "disable"}
    /\ UNCHANGED <<apiToken, links, made, now, uses>>
    /\ \/ /\ calls[c].pc = "hash" /\ DeleteUserSessions(Mine(c)) /\ Goto(c, "drop")
          /\ UNCHANGED <<user, ended>>
       \/ /\ calls[c].pc = "drop" /\ user' = [user EXCEPT !.pw = calls[c].new, !.oldHash = FALSE]
          /\ ended' = ended \cup (LiveSessions \ {Mine(c)}) /\ Done(c) /\ UNCHANGED sess

\* The common end of every change: the new hash, then the sessions, of which a change
\* made by a session keeps its own; a reset also confirms the address.
Save(c) ==
    /\ calls[c].op \in {"change", "reset", "set-password", "disable"}
    /\ UNCHANGED <<apiToken, links, made, now, uses>>
    /\ \/ /\ calls[c].pc = "hash" /\ SetPasswordHash(calls[c].new)
          /\ Turn(c, Mine(c), "drop") /\ UNCHANGED <<sess, ended>>
       \/ /\ calls[c].pc = "drop" /\ Drop(c, Mine(c))
          /\ IF calls[c].op = "reset" THEN Goto(c, "verified") ELSE Done(c)
          /\ UNCHANGED user

-----------------------------------------------------------------------------
(* Mailed links. *)

Purpose(c) == IF calls[c].op = "forgot" THEN "reset" ELSE "verify"

\* IssueReset says nothing of an account without a password; IssueVerify of one that is
\* confirmed.
IssueReset(c) ==
    /\ At(c, "forgot", "start") /\ user.exists /\ user.pw # NoPassword /\ ~user.disabled
    /\ Goto(c, "delete") /\ Rest /\ UNCHANGED <<user, sess, links>>

ResendVerify(c) ==
    /\ Signed(c, "resend") /\ ~user.verified
    /\ Goto(c, "delete") /\ Rest /\ UNCHANGED <<user, sess, links>>

\* issue: the earlier links go, then the new one is written.
Issue(c) ==
    /\ calls[c].op \in {"forgot", "resend", "register"} /\ Rest /\ UNCHANGED <<user, sess>>
    /\ \/ calls[c].pc = "delete" /\ DeleteEmailTokens(Purpose(c)) /\ Goto(c, "issue")
       \/ calls[c].pc = "issue" /\ CreateEmailToken(Purpose(c)) /\ Done(c)

\* ConfirmVerify.
ConfirmVerify(c) ==
    /\ At(c, "verify", "start")
    /\ ConsumeEmailToken(calls[c].link, "verify")
    /\ uses' = [uses EXCEPT ![calls[c].link] = @ + 1]
    /\ Goto(c, "verified")
    /\ UNCHANGED <<user, sess, apiToken, made, now, ended>>

\* The address is confirmed, by a link of either kind.
Confirmed(c) ==
    /\ calls[c].pc = "verified" /\ SetEmailVerified
    /\ Done(c) /\ Rest /\ UNCHANGED <<sess, links>>

-----------------------------------------------------------------------------
(* Sessions and API tokens. *)

\* Logout, or revokeSession of the caller's own session.
Logout(c) ==
    /\ Signed(c, "logout") /\ DeleteSession(calls[c].sess)
    /\ Done(c) /\ Rest /\ UNCHANGED <<user, links>>

RevokeSession(c) == Signed(c, "revoke") /\ \E s \in LiveSessions : DeleteSession(s)
RevokeOtherSessions(c) == Signed(c, "revoke others") /\ DeleteUserSessions(calls[c].sess)

RevokeSessions(c) ==
    /\ RevokeSession(c) \/ RevokeOtherSessions(c)
    /\ Done(c) /\ Rest /\ UNCHANGED <<user, links>>

ExternalReauth == user.google
MarkReauth(c) == At(c, "reauth", "mark") /\ Done(c) /\ SetSessionReauth(calls[c].sess)

\* Reauth with the password, ExternalReauth with Google, then MarkReauth.
Reauth(c) ==
    /\ Rest /\ UNCHANGED <<user, links>>
    /\ \/ /\ Signed(c, "reauth")
          /\ IF calls[c].cur # NoPassword THEN calls[c].cur = user.pw ELSE ExternalReauth
          /\ Goto(c, "mark") /\ UNCHANGED sess
       \/ MarkReauth(c)

\* createToken and CreateAPIToken: only soon after a sign-in.
CreateAPIToken(c) ==
    /\ Signed(c, "token") /\ Fresh(c) /\ apiToken = "none"
    /\ apiToken' = "active" /\ Done(c)
    /\ UNCHANGED <<user, sess, links, made, now, ended, uses>>

\* revokeToken and RevokeAPIToken.
RevokeAPIToken(c) ==
    /\ Signed(c, "revoke token") /\ apiToken = "active"
    /\ apiToken' = "revoked" /\ Done(c)
    /\ UNCHANGED <<user, sess, links, made, now, ended, uses>>

\* DeleteExpiredSessions of the retention job.
SweepSessions ==
    /\ \E s \in LiveSessions : sess[s].exp <= now
    /\ sess' = [s \in Sessions |-> IF sess[s].st = "live" /\ sess[s].exp <= now
                                   THEN [sess[s] EXCEPT !.st = "gone"] ELSE sess[s]]
    /\ UNCHANGED <<user, apiToken, links, calls, made, now, ended, uses>>

Tick ==
    /\ now < MaxTime /\ now' = now + 1
    /\ UNCHANGED <<user, sess, apiToken, links, calls, made, ended, uses>>

-----------------------------------------------------------------------------
(* The calls people make, with what they bring. *)

Holding == {s \in Sessions : sess[s].st # "none"} \cup {NoSession}
Mailed  == {l \in Links : links[l].st # "none"}

\* The forms of the account pages that need no session.
PostRegister(c) == \E p \in Passwords : Arrive(c, "register", NoSession, NoPassword, p, NoLink)
PostLogin(c)    == \E p \in Passwords \ {Rejected}, s \in Holding : Arrive(c, "login", s, p, NoPassword, NoLink)
PostForgot(c)   == Arrive(c, "forgot", NoSession, NoPassword, NoPassword, NoLink)
PostReset(c)    == \E l \in Mailed, p \in Passwords : Arrive(c, "reset", NoSession, NoPassword, p, l)
VerifyPage(c)   == \E l \in Mailed : Arrive(c, "verify", NoSession, NoPassword, NoPassword, l)
PostForms(c)    == PostRegister(c) \/ PostLogin(c) \/ PostForgot(c) \/ PostReset(c) \/ VerifyPage(c)

\* The settings of an account that is signed in.
Plain(c, op) == \E s \in Holding \ {NoSession} : Arrive(c, op, s, NoPassword, NoPassword, NoLink)
PostChange(c) ==
    \E s \in Holding \ {NoSession}, p \in Passwords \ {Rejected}, q \in Passwords :
        Arrive(c, "change", s, p, q, NoLink)
PostReauth(c) ==
    \E s \in Holding \ {NoSession}, p \in (Passwords \ {Rejected}) \cup {NoPassword} :
        Arrive(c, "reauth", s, p, NoPassword, NoLink)
PostUnlink(c)       == Plain(c, "unlink")
PostResend(c)       == Plain(c, "resend")
PostLogout(c)       == Plain(c, "logout")
PostRevoke(c)       == Plain(c, "revoke")
PostRevokeOthers(c) == Plain(c, "revoke others")
PostToken(c)        == Plain(c, "token")
PostRevokeToken(c)  == Plain(c, "revoke token")
PostSettings(c) ==
    \/ PostChange(c) \/ PostReauth(c) \/ PostUnlink(c) \/ PostResend(c) \/ PostLogout(c)
    \/ PostRevoke(c) \/ PostRevokeOthers(c) \/ PostToken(c) \/ PostRevokeToken(c)

\* googleStart and googleCallback, with the session that started it: a sign-in or a link.
GoogleLogin(c) == \E s \in Holding : Arrive(c, "google", s, NoPassword, NoPassword, NoLink)
GoogleCallback(c) == GoogleLogin(c) \/ Plain(c, "link")

\* The commands of an administrator.
CmdUserCreate(c)      == \E p \in Passwords : Arrive(c, "user create", NoSession, NoPassword, p, NoLink)
CmdUserSetPassword(c) == \E p \in Passwords : Arrive(c, "set-password", NoSession, NoPassword, p, NoLink)
CmdUserToggle(c) ==
    \E op \in {"disable", "enable"} : Arrive(c, op, NoSession, NoPassword, NoPassword, NoLink)
UserCommand(c) == CmdUserCreate(c) \/ CmdUserSetPassword(c) \/ CmdUserToggle(c)

NoRow  == [st |-> "none", seen |-> 0, exp |-> 0, abs |-> 0, reauth |-> 0]
NoMail == [st |-> "none", purpose |-> "verify", exp |-> 0]

\* The address is free, or its account was made in one of the ways above; it may have
\* a session, and a link for a new password may be on its way.
AccountsInit ==
    /\ user \in {u \in User :
                   \/ u = [NewUser(NoPassword, FALSE, FALSE) EXCEPT !.exists = FALSE]
                   \/ /\ u.exists /\ u.pw # Rejected /\ ~u.disabled
                      /\ u.pw # NoPassword \/ u.google
                      /\ u.oldHash => u.pw # NoPassword /\ u.verified
                      /\ u.verified \/ ~u.google}
    /\ \E first \in IF user.exists /\ user.verified THEN {NoSession, 1} ELSE {NoSession} :
          sess = [s \in Sessions |-> IF s # first THEN NoRow
                     ELSE [st |-> "live", seen |-> 0, reauth |-> 0, abs |-> AbsoluteTTL,
                           exp |-> Extend(0, AbsoluteTTL)]]
    /\ \E first \in IF user.pw # NoPassword THEN {NoLink, 1} ELSE {NoLink} :
          links = [l \in Links |-> IF l # first THEN NoMail
                     ELSE [st |-> "open", exp |-> LinkTTL,
                           purpose |-> IF user.verified THEN "reset" ELSE "verify"]]
    /\ apiToken = "none" /\ made = 0 /\ now = 0
    /\ calls = [c \in Calls |-> Idle]
    /\ ended = {} /\ uses = [l \in Links |-> 0]

AccountsNext ==
    \/ \E c \in Calls :
          \/ PostForms(c) \/ PostSettings(c) \/ GoogleCallback(c) \/ UserCommand(c)
          \/ Authenticate(c) \/ Fail(c) \/ Welcome(c)
          \/ Register(c) \/ UserCreate(c) \/ Login(c) \/ ExternalLogin(c) \/ Adopt(c)
          \/ LinkIdentity(c) \/ ExternalSignup(c) \/ UnlinkIdentity(c)
          \/ ChangePassword(c) \/ ResetPassword(c) \/ UserSetPassword(c) \/ SetDisabled(c) \/ Save(c)
          \/ IssueReset(c) \/ ResendVerify(c) \/ Issue(c) \/ ConfirmVerify(c) \/ Confirmed(c)
          \/ Logout(c) \/ RevokeSessions(c) \/ Reauth(c) \/ CreateAPIToken(c) \/ RevokeAPIToken(c)
    \/ SweepSessions
    \/ Tick

AccountsSpec == AccountsInit /\ [][AccountsNext]_accountsVars

-----------------------------------------------------------------------------
(* Properties. *)

\* A session that was live when a password was replaced, or the account disabled, does
\* not come back once that call has finished, whatever runs beside it and even if the
\* account is enabled again; only the session that changed the password stays
\* (ChangePassword, ResetPassword, SetPassword, SetDisabled, adopt).
EndedStayEnded == ended \cap LiveSessions = {}

\* A mailed link is accepted once, also when two requests bring it at the same time
\* ("so a link cannot be replayed", store/pg/emailtokens.go).
LinkOnce == \A l \in Links : uses[l] <= 1

-----------------------------------------------------------------------------
(* Why it holds: the inductive invariant. *)

\* What a change of the account is to end was live when it began, so it is no id to come, and
\* it is not the session that the change keeps.
SeenInv ==
    \A c \in Calls : calls[c].pc = "drop" =>
        \A s \in calls[c].seen : sess[s].st # "none" /\ s # Mine(c)

\* What a finished change ended is gone.
GoneInv == \A s \in ended : sess[s].st = "gone"

\* A link that can still be accepted was not accepted before.
UsesInv == \A l \in Links : uses[l] <= 1 /\ (links[l].st \in {"none", "open"} => uses[l] = 0)

EndedInv == AccountsTypeOK /\ SeenInv /\ GoneInv /\ UsesInv
=============================================================================
