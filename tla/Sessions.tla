------------------------------- MODULE Sessions -------------------------------
(***************************************************************************)
(* Logging in to the dashboard and resetting a password (users.py,         *)
(* dashboard_auth.py and the routes of main.py) in several server          *)
(* processes on one database.                                              *)
(*                                                                         *)
(* Accounts and reset tokens are rows all processes share; a session is an *)
(* entry in the memory of the process that served the log-in.  Handlers do *)
(* not await between database calls, so a process has one reset under way, *)
(* but those of other processes go on in between.                          *)
(***************************************************************************)
EXTENDS Integers, Sequences, FiniteSets

CONSTANTS
    Users,          \* the people who may sign up
    Workers,        \* the server processes
    Admin,          \* the identity of an admin session
    Nobody,         \* a request that is sent to the log-in page
    NoPassword,     \* the account does not exist
    SignUpPassword, \* the password chosen at sign-up
    NoJob,          \* a process with no reset under way
    TokenLife,      \* ticks a reset token lives, one hour in the code
    AdminAge,       \* ticks a browser keeps an admin's cookie, 24 hours
    UserAge,        \* and a user's, 30 days
    MaxTime,        \* bound on the clock
    MaxTokens,      \* bound on the reset tokens issued
    MaxSessions     \* bound on the sessions made

ASSUME NamesAssumption ==
    /\ Admin \notin Users /\ Nobody \notin Users
    /\ NoPassword \notin Nat /\ SignUpPassword \notin Nat
    /\ NoPassword # SignUpPassword

ASSUME TimesAssumption ==
    {TokenLife, AdminAge, UserAge, MaxTime, MaxTokens, MaxSessions} \subseteq Nat

VARIABLES
    secured,   \* DASHBOARD_PASSWORD is set
    now,       \* the clock
    password,  \* password[u]: where u's password comes from: sign-up, or a reset by
               \* the token of that number
    tokens,    \* the rows of reset_tokens
    job,       \* job[w]: the reset w has under way
    sessions,  \* sessions[w]: _SESSIONS of process w, a set of token-identity pairs
    jar,       \* the cookies browsers hold
    made,      \* sessions made so far: the number of the last one
    (* history *)
    issued,    \* issued[n]: for whom, and when, reset token n was made
    resets     \* the resets that took effect, and what their token was like at look-up

vars == <<secured, now, password, tokens, job, sessions, jar, made, issued, resets>>

resetVars == <<tokens, job, issued, resets>>
sessionVars == <<sessions, jar, made>>

Token == [id : Nat, user : Users, expires : Nat]

Job == [token : Nat, user : Users, stage : {"hash", "drop"},
        newest : BOOLEAN, age : Nat, used : BOOLEAN]

Reset == [token : Nat, user : Users, newest : BOOLEAN, age : Nat, used : BOOLEAN]

Cookie == [id : Nat, who : Users \cup {Admin}, until : Nat]

Init ==
    /\ secured \in BOOLEAN
    /\ now = 0
    /\ password = [u \in Users |-> NoPassword]
    /\ tokens = {}
    /\ job = [w \in Workers |-> NoJob]
    /\ sessions = [w \in Workers |-> {}]
    /\ jar = {}
    /\ made = 0
    /\ issued = <<>>
    /\ resets = {}

-----------------------------------------------------------------------------
(* Sessions.                                                               *)

(* Mutated form (of CreateSession): sessions are numbered by each process  *)
(* for itself instead of drawn at random.                                  *)
CreateSessionNumbered(w, who, age) ==
    LET id == Cardinality(sessions[w]) + 1
    IN  /\ made < MaxSessions
        /\ made' = made + 1
        /\ sessions' = [sessions EXCEPT ![w] = @ \cup {<<id, who>>}]
        /\ jar' = jar \cup {[id |-> id, who |-> who, until |-> now + age]}

(* create_session, and the cookie set with it: the session token, drawn at *)
(* random, is a new one.                                                   *)
CreateSession(w, who, age) ==
    /\ made < MaxSessions
    /\ made' = made + 1
    /\ sessions' = [sessions EXCEPT ![w] = @ \cup {<<made', who>>}]
    /\ jar' = jar \cup {[id |-> made', who |-> who, until |-> now + age]}

(* POST /signup: an address that is taken changes nothing. *)
SignUp(w, u) ==
    /\ job[w] = NoJob
    /\ password[u] = NoPassword
    /\ password' = [password EXCEPT ![u] = SignUpPassword]
    /\ CreateSession(w, u, UserAge)
    /\ UNCHANGED <<secured, now, resetVars>>

(* Mutated form (of LogIn): a session is made though nobody was found. *)
LogInUnchecked(w, u) ==
    /\ job[w] = NoJob
    /\ CreateSession(w, IF password[u] # NoPassword THEN u ELSE Nobody, UserAge)
    /\ UNCHANGED <<secured, now, password, resetVars>>

(* POST /login with address and password, the right ones. *)
LogIn(w, u) ==
    /\ job[w] = NoJob
    /\ password[u] # NoPassword
    /\ CreateSession(w, u, UserAge)
    /\ UNCHANGED <<secured, now, password, resetVars>>

(* POST /login with the admin's password alone. *)
LogInAdmin(w) ==
    /\ job[w] = NoJob
    /\ secured
    /\ CreateSession(w, Admin, AdminAge)
    /\ UNCHANGED <<secured, now, password, resetVars>>

(* GET /logout: the process that serves it forgets the session if it has   *)
(* it; the browser drops the cookie in any case.                           *)
LogOut(w, c) ==
    /\ job[w] = NoJob
    /\ sessions' = [sessions EXCEPT ![w] = {s \in @ : s[1] # c.id}]
    /\ jar' = jar \ {c}
    /\ UNCHANGED <<secured, now, password, made, resetVars>>

(* What DashboardAuthMiddleware takes a request for that comes with the    *)
(* session token id.                                                       *)
Identity(w, id) ==
    IF \E s \in sessions[w] : s[1] = id
    THEN (CHOOSE s \in sessions[w] : s[1] = id)[2]
    ELSE IF secured THEN Nobody ELSE Admin

-----------------------------------------------------------------------------
(* Resetting a password.                                                   *)

(* Mutated form (of RequestReset): earlier tokens are left in the table.   *)
RequestResetKeeping(w, u) ==
    /\ job[w] = NoJob
    /\ password[u] # NoPassword
    /\ Len(issued) < MaxTokens
    /\ issued' = Append(issued, [user |-> u, at |-> now])
    /\ tokens' = tokens \cup {[id |-> Len(issued'), user |-> u, expires |-> now + TokenLife]}
    /\ UNCHANGED <<secured, now, password, job, resets, sessionVars>>

(* POST /forgot-password, create_reset_token: the user's earlier tokens    *)
(* are deleted and a new one is inserted, in one transaction.  Whether the *)
(* e-mail arrives does not show here: a token need not be used.            *)
RequestReset(w, u) ==
    /\ job[w] = NoJob
    /\ password[u] # NoPassword
    /\ Len(issued) < MaxTokens
    /\ issued' = Append(issued, [user |-> u, at |-> now])
    /\ tokens' = {t \in tokens : t.user # u}
                 \cup {[id |-> Len(issued'), user |-> u, expires |-> now + TokenLife]}
    /\ UNCHANGED <<secured, now, password, job, resets, sessionVars>>

(* What is true of a token when it is looked up (history). *)
IsNewest(t) == \A n \in DOMAIN issued : issued[n].user = t.user => n <= t.id
Used(t) == \E r \in resets : r.token = t.id

(* POST /reset-password, use_reset_token, first transaction: the row is    *)
(* read; one that has expired is to be deleted, else the new password is   *)
(* hashed.  A token that is not found changes nothing.                     *)
LookUpToken(w, t) ==
    /\ job[w] = NoJob
    /\ job' = [job EXCEPT ![w] =
           [token |-> t.id, user |-> t.user,
            stage |-> IF now > t.expires THEN "drop" ELSE "hash",
            newest |-> IsNewest(t), age |-> now - issued[t.id].at, used |-> Used(t)]]
    /\ UNCHANGED <<secured, now, password, tokens, issued, resets, sessionVars>>

DropExpired(w) ==
    /\ job[w] # NoJob /\ job[w].stage = "drop"
    /\ tokens' = {t \in tokens : t.id # job[w].token}
    /\ job' = [job EXCEPT ![w] = NoJob]
    /\ UNCHANGED <<secured, now, password, issued, resets, sessionVars>>

(* Second transaction: the hash goes to the user of the row read, and the  *)
(* token, if it is still there, is deleted.                                *)
CommitReset(w) ==
    /\ job[w] # NoJob /\ job[w].stage = "hash"
    /\ password' = [password EXCEPT ![job[w].user] = job[w].token]
    /\ tokens' = {t \in tokens : t.id # job[w].token}
    /\ resets' = resets \cup
           {[token |-> job[w].token, user |-> job[w].user, newest |-> job[w].newest,
             age |-> job[w].age, used |-> job[w].used]}
    /\ job' = [job EXCEPT ![w] = NoJob]
    /\ UNCHANGED <<secured, now, issued, sessionVars>>

-----------------------------------------------------------------------------

(* A process starts afresh: its sessions are gone, its reset is cut. *)
Restart(w) ==
    /\ sessions' = [sessions EXCEPT ![w] = {}]
    /\ job' = [job EXCEPT ![w] = NoJob]
    /\ UNCHANGED <<secured, now, password, tokens, jar, made, issued, resets>>

(* Time passes, and browsers drop the cookies that are too old. *)
Tick ==
    /\ now < MaxTime
    /\ now' = now + 1
    /\ jar' = {c \in jar : c.until > now'}
    /\ UNCHANGED <<secured, password, sessions, made, resetVars>>

Next ==
    \/ Tick
    \/ \E w \in Workers :
          \/ \E u \in Users : SignUp(w, u) \/ LogIn(w, u) \/ RequestReset(w, u)
          \/ LogInAdmin(w)
          \/ \E c \in jar : LogOut(w, c)
          \/ \E t \in tokens : LookUpToken(w, t)
          \/ DropExpired(w) \/ CommitReset(w) \/ Restart(w)

Spec == Init /\ [][Next]_vars

-----------------------------------------------------------------------------

(* Every variable holds what the handlers put there. *)
TypeOK ==
    /\ secured \in BOOLEAN
    /\ now \in Nat
    /\ password \in [Users -> Nat \cup {NoPassword, SignUpPassword}]
    /\ tokens \subseteq Token
    /\ job \in [Workers -> Job \cup {NoJob}]
    /\ sessions \in [Workers -> SUBSET (Nat \X (Users \cup {Admin}))]
    /\ jar \subseteq Cookie
    /\ made \in Nat
    /\ issued \in Seq([user : Users, at : Nat])
    /\ resets \subseteq Reset

(* A password is reset only by a token that was made for that very user    *)
(* and that, when the reset began, was the last one made for the user, no  *)
(* older than its hour, and had not been used: what other processes do     *)
(* between look-up and use can only let resets that overlap both happen    *)
(* (users.py 343-385).                                                     *)
ResetsJustified ==
    \A r \in resets :
        /\ issued[r.token].user = r.user
        /\ r.newest /\ ~r.used /\ r.age <= TokenLife

(* A browser's request is taken for its own user's, whichever process gets *)
(* it, or for one without session (main.py 65-102, dashboard_auth.py): a   *)
(* log-in, log-out or restart elsewhere never makes it somebody else's.    *)
CookieIdentity ==
    \A w \in Workers, c \in jar :
        Identity(w, c.id) \in {c.who, IF secured THEN Nobody ELSE Admin}
===============================================================================
