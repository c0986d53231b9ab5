------------------------------ MODULE Accounts ------------------------------
(* One account (auth/service.py) and the requests that use it: logins and   *)
(* password changes of the API (api/routes/auth.py), and the administrator  *)
(* (auth/cli.py).  A request is one transaction at READ COMMITTED: it reads *)
(* the user's row, hashes for a while, and writes; of the columns it        *)
(* assigns, SQLAlchemy writes those that differ from what it has read.      *)
EXTENDS Naturals, FiniteSets

CONSTANTS Callers,       \* concurrent requests
          MaxFailures,   \* settings.login_max_failures
          MaxWrong,      \* bound: wrong passwords given in all
          MaxChanges,    \* bound: passwords set
          MaxSessions    \* bound: sessions issued

ASSUME AccountsAssumption == /\ MaxFailures \in Nat \ {0} /\ IsFiniteSet(Callers)
                             /\ MaxWrong \in Nat /\ MaxChanges \in Nat /\ MaxSessions \in Nat

VARIABLES password,      \* its version (password_hash)
          active, failed,
          lock,          \* "none", "locked" or, when locked_until has passed, "past"
          sessions,      \* issued and not revoked
          task,          \* what each handler does, and the row as it was read
          issued, wrong, \* bounds: sessions issued, wrong passwords given
          streak         \* ghost: wrong passwords compared since the last login with the
                         \*   right one, reset or end of a lock

accountVars == <<password, active, failed, lock, sessions, task, issued, wrong, streak>>

Row  == [password |-> password, active |-> active, failed |-> failed, lock |-> lock]
Idle == [kind |-> "none"]

AccountsInit ==
  /\ password = 1 /\ active = TRUE /\ failed = 0 /\ lock = "none" /\ sessions = {}
  /\ task = [h \in Callers |-> Idle]
  /\ issued = 0 /\ wrong = 0 /\ streak = 0
-----------------------------------------------------------------------------
\* authenticate begins: the row is read.  A guess is a version of the password, 0 a wrong one.
BeginLogin(h) ==
  /\ task[h] = Idle
  /\ \E guess \in 0..password :
       /\ guess = 0 => wrong < MaxWrong
       /\ wrong' = IF guess = 0 THEN wrong + 1 ELSE wrong
       /\ task' = [task EXCEPT ![h] = [kind |-> "login", guess |-> guess, row |-> Row]]
  /\ UNCHANGED <<password, active, failed, lock, sessions, issued, streak>>

\* change_password: the cookie must resolve (resolve_session), then authenticate.
Resolves(s) == s \in sessions /\ active

BeginChange(h) ==
  /\ task[h] = Idle
  /\ \E s \in sessions : Resolves(s)
  /\ \E guess \in {0, password} :
       /\ guess = 0 => wrong < MaxWrong
       /\ wrong' = IF guess = 0 THEN wrong + 1 ELSE wrong
       /\ task' = [task EXCEPT ![h] = [kind |-> "change", guess |-> guess, row |-> Row]]
  /\ UNCHANGED <<password, active, failed, lock, sessions, issued, streak>>

BeginAdmin(h, command) ==
  /\ task[h] = Idle
  /\ task' = [task EXCEPT ![h] = [kind |-> command, row |-> Row]]
  /\ UNCHANGED <<password, active, failed, lock, sessions, issued, wrong, streak>>

\* Refused without a look at the password, in the time a look would take.
Unanswered(t) == ~t.row.active \/ t.row.lock = "locked"
Right(t)      == t.guess = t.row.password

\* What an assignment to a column comes to.
Assign(old, read, new) == IF read = new THEN old ELSE new

Done(h) == task' = [task EXCEPT ![h] = Idle]

\* create_session; late: the password was set while this request was under way.
Issue(t, pw, kept) ==
  /\ issued < MaxSessions /\ issued' = issued + 1
  /\ sessions' = kept \cup {[id |-> issued, password |-> pw, late |-> pw # password']}

RefuseLogin(h) ==
  LET t == task[h] IN
  /\ t.kind \in {"login", "change"} /\ Unanswered(t) /\ Done(h)
  /\ UNCHANGED <<password, active, failed, lock, sessions, issued, wrong, streak>>

\* Mutant: the failures are counted from what was read.
WrongPasswordLost(h) ==
  LET t == task[h] n == t.row.failed + 1 IN
  /\ t.kind \in {"login", "change"} /\ ~Unanswered(t) /\ ~Right(t) /\ Done(h)
  /\ IF n >= MaxFailures THEN failed' = 0 /\ lock' = "locked" ELSE failed' = n /\ UNCHANGED lock
  /\ streak' = streak + 1
  /\ UNCHANGED <<password, active, sessions, issued, wrong>>

\* The database counts; the one that counts to the limit locks.
WrongPassword(h) ==
  LET t == task[h] IN
  /\ t.kind \in {"login", "change"} /\ ~Unanswered(t) /\ ~Right(t) /\ Done(h)
  /\ IF failed + 1 >= MaxFailures THEN failed' = 0 /\ lock' = "locked"
                                  ELSE failed' = failed + 1 /\ UNCHANGED lock
  /\ streak' = streak + 1
  /\ UNCHANGED <<password, active, sessions, issued, wrong>>

Unlocked(t) == failed' = Assign(failed, t.row.failed, 0) /\ lock' = Assign(lock, t.row.lock, "none")

Login(h) ==
  LET t == task[h] IN
  /\ t.kind = "login" /\ ~Unanswered(t) /\ Right(t) /\ Done(h)
  /\ Unlocked(t) /\ streak' = 0
  /\ UNCHANGED <<password, active, wrong>> /\ Issue(t, t.row.password, sessions)

\* Mutant: the sessions are kept.
SetPasswordOnly(h) ==
  LET t == task[h] IN
  /\ password <= MaxChanges /\ password' = password + 1
  /\ Unlocked(t) /\ streak' = 0
  /\ UNCHANGED <<active, wrong>>
  /\ IF t.kind = "change" THEN Issue(t, password', sessions) ELSE UNCHANGED <<sessions, issued>>

\* reset_password: all sessions end, and the one who changed it gets a new one.
SetPassword(h) ==
  LET t == task[h] IN
  /\ password <= MaxChanges /\ password' = password + 1
  /\ Unlocked(t) /\ streak' = 0
  /\ UNCHANGED <<active, wrong>>
  /\ IF t.kind = "change" THEN Issue(t, password', {}) ELSE sessions' = {} /\ UNCHANGED issued

\* The new password is set or, if it is weak, nothing but the counter.
ChangePassword(h) ==
  LET t == task[h] IN
  /\ t.kind = "change" /\ ~Unanswered(t) /\ Right(t) /\ Done(h)
  /\ \/ SetPassword(h)
     \/ Unlocked(t) /\ streak' = 0 /\ UNCHANGED <<password, active, sessions, issued, wrong>>

ResetPassword(h) == task[h].kind = "reset" /\ Done(h) /\ SetPassword(h)

\* set_active.
Deactivate(h) ==
  LET t == task[h] IN
  /\ t.kind = "deactivate" /\ Done(h)
  /\ active' = Assign(active, t.row.active, FALSE) /\ sessions' = {}
  /\ UNCHANGED <<password, failed, lock, issued, wrong, streak>>

Activate(h) ==
  LET t == task[h] IN
  /\ t.kind = "activate" /\ Done(h)
  /\ active' = Assign(active, t.row.active, TRUE)
  /\ UNCHANGED <<password, failed, lock, sessions, issued, wrong, streak>>

\* Logout, or the end of its time (resolve_session, purge_expired_sessions).
EndSession ==
  /\ \E s \in sessions : sessions' = sessions \ {s}
  /\ UNCHANGED <<password, active, failed, lock, task, issued, wrong, streak>>

\* login_lockout_minutes are over.
LockPasses ==
  /\ lock = "locked" /\ lock' = "past" /\ streak' = 0
  /\ UNCHANGED <<password, active, failed, sessions, task, issued, wrong>>

\* A request dies and is rolled back.
Abandon(h) ==
  /\ task[h] # Idle /\ Done(h)
  /\ UNCHANGED <<password, active, failed, lock, sessions, issued, wrong, streak>>

AccountsNext ==
  \/ \E h \in Callers :
       \/ BeginLogin(h) \/ BeginChange(h)
       \/ \E command \in {"reset", "deactivate", "activate"} : BeginAdmin(h, command)
       \/ RefuseLogin(h) \/ WrongPassword(h) \/ Login(h) \/ ChangePassword(h)
       \/ ResetPassword(h) \/ Deactivate(h) \/ Activate(h) \/ Abandon(h)
  \/ EndSession \/ LockPasses

AccountsSpec == AccountsInit /\ [][AccountsNext]_accountVars
-----------------------------------------------------------------------------
\* However many requests try at the same time, between two locks no more wrong
\* passwords are compared than it takes to lock, and one for each other request that
\* had read the row before.
TriesAreBounded == streak <= MaxFailures + Cardinality(Callers) - 1

\* "All sessions are revoked": one that is left belongs to the password of now, but
\* for a login that was under way while the password was set.
SessionsAreCurrent == \A s \in sessions : s.password = password \/ s.late

=============================================================================
