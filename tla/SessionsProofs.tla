---------------------------- MODULE SessionsProofs ----------------------------
(***************************************************************************)
(* Proofs about Sessions, for any number of users and processes: types,    *)
(* that resets are justified, and that cookies keep their identity.        *)
(***************************************************************************)
EXTENDS Sessions, TLAPS

(* Reset tokens in the table are as they were made, the newest of their    *)
(* users, and not used yet.                                                *)
TokensFresh ==
    \A t \in tokens :
        /\ t.id \in DOMAIN issued
        /\ issued[t.id].user = t.user
        /\ t.expires = issued[t.id].at + TokenLife
        /\ \A n \in DOMAIN issued : issued[n].user = t.user => n <= t.id
        /\ \A r \in resets : r.token # t.id

(* A reset under way that may succeed has seen a good token. *)
JobsJustified ==
    \A w \in Workers :
        job[w] # NoJob =>
            /\ job[w].token \in DOMAIN issued
            /\ issued[job[w].token].user = job[w].user
            /\ job[w].stage = "hash" =>
                  job[w].newest /\ ~job[w].used /\ job[w].age <= TokenLife

ResetsInv ==
    /\ \A n \in DOMAIN issued : issued[n].at <= now
    /\ \A r \in resets : r.token \in DOMAIN issued
    /\ TokensFresh
    /\ JobsJustified
    /\ ResetsJustified

(* A session with the number of a cookie is that cookie's session. *)
SessionsInv ==
    /\ \A w \in Workers : \A s \in sessions[w] : s[1] <= made
    /\ \A c \in jar : c.id <= made
    /\ \A w \in Workers, c \in jar : \A s \in sessions[w] : s[1] = c.id => s[2] = c.who

IInv == TypeOK /\ ResetsInv /\ SessionsInv

-----------------------------------------------------------------------------

LEMMA InitIInv == Init => IInv
  BY NamesAssumption, TimesAssumption
  DEF Init, IInv, TypeOK, ResetsInv, SessionsInv, TokensFresh, JobsJustified, ResetsJustified,
      Token, Job, Reset, Cookie

(* Making a session keeps the sessions in order: its number is a new one. *)
LEMMA CreateKeeps ==
  ASSUME IInv, NEW w \in Workers, NEW who \in Users \cup {Admin}, NEW age \in Nat,
         CreateSession(w, who, age), UNCHANGED <<job, tokens, issued, resets, now, secured>>,
         password' \in [Users -> Nat \cup {NoPassword, SignUpPassword}]
  PROVE  IInv'
<1>1. /\ made \in Nat /\ made' = made + 1 /\ now \in Nat
      /\ sessions' = [sessions EXCEPT ![w] = @ \cup {<<made', who>>}]
      /\ jar' = jar \cup {[id |-> made', who |-> who, until |-> now + age]}
  BY DEF CreateSession, IInv, TypeOK
<1>2. TypeOK'
  BY <1>1 DEF IInv, TypeOK, Cookie
<1>3. ResetsInv'
  BY DEF IInv, ResetsInv, TokensFresh, JobsJustified, ResetsJustified
<1>4. SessionsInv'
  <2>1. sessions \in [Workers -> SUBSET (Nat \X (Users \cup {Admin}))] /\ jar \subseteq Cookie
    BY DEF IInv, TypeOK
  <2>2. \A v \in Workers : \A s \in sessions'[v] : s \in sessions[v] \/ s = <<made + 1, who>>
    BY <1>1, <2>1
  <2>3. \A c \in jar' : c \in jar \/ (c.id = made + 1 /\ c.who = who)
    BY <1>1
  <2>4. \A v \in Workers : \A s \in sessions[v] : s[1] \in Nat /\ s[1] <= made
    BY <2>1 DEF IInv, SessionsInv
  <2>5. \A c \in jar : c.id \in Nat /\ c.id <= made
    BY <2>1 DEF IInv, SessionsInv, Cookie
  <2>6. \A v \in Workers : \A s \in sessions'[v] : s[1] <= made'
    BY <1>1, <2>2, <2>4
  <2>7. \A c \in jar' : c.id <= made'
    BY <1>1, <2>3, <2>5
  <2>8. ASSUME NEW v \in Workers, NEW c \in jar', NEW s \in sessions'[v], s[1] = c.id
        PROVE  s[2] = c.who
    BY <1>1, <2>2, <2>3, <2>4, <2>5, <2>8 DEF IInv, SessionsInv
  <2> QED BY <2>6, <2>7, <2>8 DEF SessionsInv
<1> QED BY <1>2, <1>3, <1>4 DEF IInv

(* What goes on with resets leaves the sessions alone. *)
LEMMA SessionsUntouched ==
  ASSUME SessionsInv, UNCHANGED sessionVars
  PROVE  SessionsInv'
BY DEF SessionsInv, sessionVars

(* A new token is the newest of its user and takes the place of the rest. *)
LEMMA RequestKeeps ==
  ASSUME IInv, NEW w \in Workers, NEW u \in Users, RequestReset(w, u)
  PROVE  IInv'
<1> DEFINE new == [id |-> Len(issued) + 1, user |-> u, expires |-> now + TokenLife]
<1>1. /\ issued \in Seq([user : Users, at : Nat]) /\ now \in Nat /\ TokenLife \in Nat
      /\ issued' = Append(issued, [user |-> u, at |-> now])
      /\ tokens' = {t \in tokens : t.user # u} \cup {new}
      /\ UNCHANGED <<now, secured, password, job, resets, sessions, jar, made>>
  BY TimesAssumption DEF RequestReset, sessionVars, IInv, TypeOK
<1>2. /\ Len(issued) \in Nat /\ DOMAIN issued = 1..Len(issued)
      /\ DOMAIN issued' = 1..(Len(issued) + 1)
      /\ issued'[Len(issued) + 1] = [user |-> u, at |-> now]
      /\ \A n \in DOMAIN issued : issued'[n] = issued[n]
  BY <1>1
<1>3. TypeOK'
  <2>1. issued' \in Seq([user : Users, at : Nat])
    BY <1>1
  <2>2. tokens' \subseteq Token
    BY <1>1, <1>2 DEF IInv, TypeOK, Token
  <2> QED BY <1>1, <2>1, <2>2 DEF IInv, TypeOK
<1>4. ResetsInv'
  <2>1. \A n \in DOMAIN issued' : issued'[n].at <= now'
    BY <1>1, <1>2 DEF IInv, ResetsInv
  <2>2. \A r \in resets' : r.token \in DOMAIN issued' /\ r.token <= Len(issued)
                           /\ issued'[r.token] = issued[r.token]
    BY <1>1, <1>2 DEF IInv, ResetsInv
  <2>3. TokensFresh'
    <3>1. ASSUME NEW t \in tokens, t.user # u
          PROVE  /\ t.id \in DOMAIN issued' /\ issued'[t.id].user = t.user
                 /\ t.expires = issued'[t.id].at + TokenLife
                 /\ \A n \in DOMAIN issued' : issued'[n].user = t.user => n <= t.id
                 /\ \A r \in resets' : r.token # t.id
      BY <3>1, <1>1, <1>2 DEF IInv, ResetsInv, TokensFresh
    <3>2. /\ new.id \in DOMAIN issued' /\ issued'[new.id].user = new.user
          /\ new.expires = issued'[new.id].at + TokenLife
          /\ \A n \in DOMAIN issued' : issued'[n].user = new.user => n <= new.id
          /\ \A r \in resets' : r.token # new.id
      BY <1>1, <1>2, <2>2
    <3>3. \A t \in tokens' : t = new \/ (t \in tokens /\ t.user # u)
      BY <1>1
    <3> QED BY <3>1, <3>2, <3>3 DEF TokensFresh
  <2>4. JobsJustified'
    BY <1>1, <1>2 DEF IInv, ResetsInv, JobsJustified
  <2>5. ResetsJustified'
    BY <1>1, <2>2 DEF IInv, ResetsInv, ResetsJustified
  <2> QED BY <2>1, <2>2, <2>3, <2>4, <2>5 DEF ResetsInv
<1>5. SessionsInv'
  BY <1>1, SessionsUntouched DEF IInv, sessionVars
<1> QED BY <1>3, <1>4, <1>5 DEF IInv

(* Every reset token was made for a user, at a time. *)
LEMMA IssuedTimes ==
  ASSUME TypeOK
  PROVE  \A n \in DOMAIN issued : issued[n].user \in Users /\ issued[n].at \in Nat
<1> DEFINE Made == [user : Users, at : Nat]
<1>1. issued \in Seq(Made)
  BY DEF TypeOK
<1>2. SUFFICES ASSUME NEW n \in DOMAIN issued
               PROVE  issued[n].user \in Users /\ issued[n].at \in Nat
  OBVIOUS
<1>3. issued[n] \in Made
  <2> HIDE DEF Made
  <2> QED BY <1>1
<1> QED BY <1>3

(* Looking a token up notes what the table says of it. *)
LEMMA LookUpKeeps ==
  ASSUME IInv, NEW w \in Workers, NEW t \in tokens, LookUpToken(w, t)
  PROVE  IInv'
<1> DEFINE new == [token |-> t.id, user |-> t.user,
                   stage |-> IF now > t.expires THEN "drop" ELSE "hash",
                   newest |-> IsNewest(t), age |-> now - issued[t.id].at, used |-> Used(t)]
<1>1. /\ job' = [job EXCEPT ![w] = new]
      /\ UNCHANGED <<secured, now, password, tokens, issued, resets, sessions, jar, made>>
  BY DEF LookUpToken, sessionVars
<1>2. /\ t \in Token /\ now \in Nat /\ TokenLife \in Nat
      /\ t.id \in DOMAIN issued /\ issued[t.id].at \in Nat /\ issued[t.id].at <= now
      /\ issued[t.id].user = t.user /\ t.expires = issued[t.id].at + TokenLife
  <2>1. t \in Token /\ now \in Nat /\ TokenLife \in Nat
    BY TimesAssumption DEF IInv, TypeOK
  <2>2. /\ t.id \in DOMAIN issued /\ issued[t.id].at <= now
        /\ issued[t.id].user = t.user /\ t.expires = issued[t.id].at + TokenLife
    BY DEF IInv, ResetsInv, TokensFresh
  <2> QED BY <2>1, <2>2, IssuedTimes DEF IInv
<1>3. IsNewest(t) /\ ~Used(t)
  BY DEF IInv, ResetsInv, TokensFresh, IsNewest, Used
<1>4. new \in Job /\ (new.stage = "hash" => new.age <= TokenLife)
  <2>1. IsNewest(t) = TRUE /\ Used(t) = FALSE
    BY <1>3 DEF IsNewest, Used
  <2>2. now - issued[t.id].at \in Nat
    BY <1>2
  <2>3. ~(now > t.expires) => now - issued[t.id].at <= TokenLife
    BY <1>2
  <2> QED BY <1>2, <2>1, <2>2, <2>3 DEF Job, Token
<1>5. TypeOK'
  BY <1>1, <1>4 DEF IInv, TypeOK
<1>6. ResetsInv'
  <2>1. JobsJustified'
    <3>1. \A v \in Workers : job'[v] = IF v = w THEN new ELSE job[v]
      BY <1>1 DEF IInv, TypeOK
    <3>2. new.token = t.id /\ new.user = t.user /\ new.newest /\ ~new.used
      BY <1>3
    <3> SUFFICES ASSUME NEW v \in Workers, job'[v] # NoJob
                 PROVE  /\ job'[v].token \in DOMAIN issued
                        /\ issued[job'[v].token].user = job'[v].user
                        /\ job'[v].stage = "hash" =>
                              job'[v].newest /\ ~job'[v].used /\ job'[v].age <= TokenLife
      BY <1>1 DEF JobsJustified
    <3>3. CASE v = w
      BY <1>2, <1>4, <3>1, <3>2, <3>3
    <3>4. CASE v # w
      BY <3>1, <3>4 DEF IInv, ResetsInv, JobsJustified
    <3> QED BY <3>3, <3>4
  <2> QED BY <1>1, <2>1 DEF IInv, ResetsInv, TokensFresh, ResetsJustified
<1>7. SessionsInv'
  BY <1>1, SessionsUntouched DEF IInv, sessionVars
<1> QED BY <1>5, <1>6, <1>7 DEF IInv

(* A reset uses its token up. *)
LEMMA CommitKeeps ==
  ASSUME IInv, NEW w \in Workers, CommitReset(w)
  PROVE  IInv'
<1> DEFINE done == [token |-> job[w].token, user |-> job[w].user, newest |-> job[w].newest,
                    age |-> job[w].age, used |-> job[w].used]
<1>1. /\ job[w] # NoJob /\ job[w].stage = "hash"
      /\ password' = [password EXCEPT ![job[w].user] = job[w].token]
      /\ tokens' = {t \in tokens : t.id # job[w].token}
      /\ resets' = resets \cup {done}
      /\ job' = [job EXCEPT ![w] = NoJob]
      /\ UNCHANGED <<secured, now, issued, sessions, jar, made>>
  BY DEF CommitReset, sessionVars
<1>2. job[w] \in Job
  BY <1>1 DEF IInv, TypeOK
<1>3. TypeOK'
  BY <1>1, <1>2 DEF IInv, TypeOK, Job, Reset
<1>4. ResetsInv'
  <2>1. /\ done.token \in DOMAIN issued /\ issued[done.token].user = done.user
        /\ done.newest /\ ~done.used /\ done.age <= TokenLife
    BY <1>1 DEF IInv, ResetsInv, JobsJustified
  <2>2. \A r \in resets' : r \in resets \/ r = done
    BY <1>1
  <2>3. ResetsJustified' /\ \A r \in resets' : r.token \in DOMAIN issued'
    BY <1>1, <2>1, <2>2 DEF IInv, ResetsInv, ResetsJustified
  <2>4. TokensFresh'
    <3>1. \A t \in tokens' : t \in tokens /\ t.id # done.token
      BY <1>1
    <3> QED BY <1>1, <2>2, <3>1 DEF IInv, ResetsInv, TokensFresh
  <2>5. JobsJustified'
    BY <1>1 DEF IInv, TypeOK, ResetsInv, JobsJustified
  <2> QED BY <1>1, <2>3, <2>4, <2>5 DEF IInv, ResetsInv
<1>5. SessionsInv'
  BY <1>1, SessionsUntouched DEF IInv, sessionVars
<1> QED BY <1>3, <1>4, <1>5 DEF IInv

(* The steps that only take something away: rows, jobs, sessions, cookies. *)
LEMMA RemovalKeeps ==
  ASSUME IInv, secured' = secured, password' = password, made' = made,
         issued' = issued, resets' = resets, now' = now,
         tokens' \subseteq tokens, jar' \subseteq jar,
         job' \in [Workers -> Job \cup {NoJob}],
         \A w \in Workers : job'[w] \in {job[w], NoJob},
         sessions' \in [Workers -> SUBSET (Nat \X (Users \cup {Admin}))],
         \A w \in Workers : sessions'[w] \subseteq sessions[w]
  PROVE  IInv'
<1>1. TypeOK'
  BY DEF IInv, TypeOK
<1>2. TokensFresh' /\ ResetsJustified'
  BY DEF IInv, ResetsInv, TokensFresh, ResetsJustified
<1>3. JobsJustified'
  BY DEF IInv, ResetsInv, JobsJustified
<1>4. ResetsInv'
  BY <1>2, <1>3 DEF IInv, ResetsInv
<1>5. SessionsInv'
  BY DEF IInv, SessionsInv
<1> QED BY <1>1, <1>4, <1>5 DEF IInv

LEMMA NextKeeps ==
  ASSUME IInv, [Next]_vars
  PROVE  IInv'
<1> USE DEF sessionVars, resetVars
<1>1. /\ password \in [Users -> Nat \cup {NoPassword, SignUpPassword}]
      /\ job \in [Workers -> Job \cup {NoJob}]
      /\ sessions \in [Workers -> SUBSET (Nat \X (Users \cup {Admin}))]
      /\ {TokenLife, AdminAge, UserAge, MaxTime} \subseteq Nat
  BY TimesAssumption DEF IInv, TypeOK
<1>2. ASSUME NEW w \in Workers, NEW u \in Users, SignUp(w, u) PROVE IInv'
  <2>1. password' \in [Users -> Nat \cup {NoPassword, SignUpPassword}]
    BY <1>1, <1>2 DEF SignUp
  <2> QED BY <1>1, <1>2, <2>1, CreateKeeps DEF SignUp
<1>3. ASSUME NEW w \in Workers, NEW u \in Users, LogIn(w, u) PROVE IInv'
  BY <1>1, <1>3, CreateKeeps DEF LogIn
<1>4. ASSUME NEW w \in Workers, LogInAdmin(w) PROVE IInv'
  BY <1>1, <1>4, CreateKeeps DEF LogInAdmin
<1>5. ASSUME NEW w \in Workers, NEW u \in Users, RequestReset(w, u) PROVE IInv'
  BY <1>5, RequestKeeps
<1>6. ASSUME NEW w \in Workers, NEW t \in tokens, LookUpToken(w, t) PROVE IInv'
  BY <1>6, LookUpKeeps
<1>7. ASSUME NEW w \in Workers, CommitReset(w) PROVE IInv'
  BY <1>7, CommitKeeps
<1>8. ASSUME NEW w \in Workers, NEW c \in jar, LogOut(w, c) PROVE IInv'
  BY <1>1, <1>8, RemovalKeeps DEF LogOut
<1>9. ASSUME NEW w \in Workers, DropExpired(w) PROVE IInv'
  BY <1>1, <1>9, RemovalKeeps DEF DropExpired
<1>10. ASSUME NEW w \in Workers, Restart(w) PROVE IInv'
  BY <1>1, <1>10, RemovalKeeps DEF Restart
<1>11. CASE Tick
  <2>1. now \in Nat /\ now' = now + 1 /\ jar' \subseteq jar
        /\ UNCHANGED <<secured, password, sessions, made, tokens, job, issued, resets>>
    BY <1>11 DEF Tick, IInv, TypeOK
  <2>2. TypeOK' /\ SessionsInv'
    BY <2>1 DEF IInv, TypeOK, SessionsInv
  <2>3. \A n \in DOMAIN issued' : issued'[n].at <= now'
    <3>1. \A n \in DOMAIN issued : issued[n].at \in Nat /\ issued[n].at <= now
      BY IssuedTimes DEF IInv, ResetsInv
    <3> QED BY <2>1, <3>1
  <2>4. ResetsInv'
    BY <2>1, <2>3 DEF IInv, ResetsInv, TokensFresh, JobsJustified, ResetsJustified
  <2> QED BY <2>2, <2>4 DEF IInv
<1>12. CASE UNCHANGED vars
  BY <1>12 DEF vars, IInv, TypeOK, ResetsInv, SessionsInv, TokensFresh, JobsJustified,
               ResetsJustified
<1> QED BY <1>2, <1>3, <1>4, <1>5, <1>6, <1>7, <1>8, <1>9, <1>10, <1>11, <1>12 DEF Next

LEMMA IInvHolds == Spec => []IInv
BY InitIInv, NextKeeps, PTL DEF Spec

-----------------------------------------------------------------------------

(* Every variable keeps its type: sessions, tokens and resets under way    *)
(* are always of users and processes there are.                            *)
THEOREM TypeCorrect == Spec => []TypeOK
<1>1. IInv => TypeOK
  BY DEF IInv
<1> QED BY <1>1, IInvHolds, PTL

(* Every reset that took effect began with the newest, unused and living   *)
(* token of its user, however the processes interleave (users.py 343-385). *)
THEOREM ResetsAreJustified == Spec => []ResetsJustified
<1>1. IInv => ResetsJustified
  BY DEF IInv, ResetsInv
<1> QED BY <1>1, IInvHolds, PTL

(* No cookie is ever taken for anybody but the one it was given to, by     *)
(* whichever process (main.py 71-103).                                     *)
THEOREM CookiesKeepIdentity == Spec => []CookieIdentity
<1>1. IInv => CookieIdentity
  <2>1. ASSUME IInv, NEW w \in Workers, NEW c \in jar, \E s \in sessions[w] : s[1] = c.id
        PROVE  (CHOOSE s \in sessions[w] : s[1] = c.id)[2] = c.who
    BY <2>1 DEF IInv, SessionsInv
  <2> QED BY <2>1 DEF CookieIdentity, Identity
<1> QED BY <1>1, IInvHolds, PTL
===============================================================================
