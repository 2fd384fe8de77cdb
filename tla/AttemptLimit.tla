---------------------------- MODULE AttemptLimit ----------------------------
(***************************************************************************)
(* How often one address may fail to log in or register a client           *)
(* (oauth/forms.py, oauth/selfhost.py): the count and the record of an     *)
(* attempt are separate transactions on the SQLite table of                *)
(* oauth/_rate_limit.py, with the client's form and the password in        *)
(* between; starting the server prunes the table.                          *)
(***************************************************************************)
EXTENDS Naturals, FiniteSets

CONSTANTS
  Posts,           \* requests from the address that may be in flight
  MaxAttempts,     \* LOGIN_MAX_FAILURES, REGISTER_MAX_ATTEMPTS
  Window,          \* LOGIN_LOCKOUT_WINDOW_SECS, REGISTER_WINDOW_SECS
  Retention,       \* RATE_LIMIT_EVENT_RETENTION_SECS
  LastTime,        \* bound of the clock
  LastAttempt      \* bound of the attempts

ASSUME AttemptAssumption ==
  /\ IsFiniteSet(Posts) /\ MaxAttempts \in Nat \ {0} /\ Window \in Nat
  /\ Retention \in Nat /\ Retention >= Window  \* oauth/constants.py:17
  /\ LastTime \in Nat /\ LastAttempt \in Nat

VARIABLES
  page,       \* the page that is posted to; the two have keys of their own
  at,         \* where the handler of each post stands
  events,     \* the rows of rate_limit_events that the address has
  attempts,   \* passwords found wrong, or clients let through (history)
  unrecorded, \* wrong passwords whose record was lost (history)
  clock       \* the clock

attemptVars == <<page, at, events, attempts, unrecorded, clock>>

---------------------------------------------------------------------------
Times == 0 .. LastTime

(* Rows with their time, numbered from 1 among those of the same time.     *)
Row == [time : Times, nth : Nat]
RowsAt(rows, t) == {e \in rows : e.time = t}

Add(rows) == rows \cup {[time |-> clock, nth |-> Cardinality(RowsAt(rows, clock)) + 1]}

CountEvents(window) == Cardinality({e \in events : clock <= e.time + window})

AtLimit == CountEvents(Window) >= MaxAttempts

AttemptTypeOK ==
  /\ page \in {"login", "register"}
  /\ at \in [Posts -> {"idle", "form", "failed", "register"}]
  /\ events \subseteq Row /\ attempts \subseteq Row
  /\ unrecorded \in Nat /\ clock \in Times

AttemptInit ==
  /\ page \in {"login", "register"}
  /\ at = [p \in Posts |-> "idle"]
  /\ events = {} /\ attempts = {}
  /\ unrecorded = 0 /\ clock = 0

Become(p, place) == at' = [at EXCEPT ![p] = place] /\ page' = page
Room == Cardinality(attempts) < LastAttempt

---------------------------------------------------------------------------
\* POST /login: a 429, or on to the form.
CheckLogin(p) ==
  /\ page = "login" /\ at[p] = "idle" /\ ~AtLimit
  /\ Become(p, "form")
  /\ UNCHANGED <<events, attempts, unrecorded, clock>>

\* The form, the client or its redirect is refused, or the password is right.
LeaveLogin(p) ==
  /\ at[p] = "form"
  /\ Become(p, "idle")
  /\ UNCHANGED <<events, attempts, unrecorded, clock>>

WrongPassword(p) ==
  /\ at[p] = "form" /\ Room
  /\ attempts' = Add(attempts)
  /\ Become(p, "failed")
  /\ UNCHANGED <<events, unrecorded, clock>>

RecordFailure(p) ==
  /\ at[p] = "failed"
  /\ events' = Add(events)
  /\ Become(p, "idle")
  /\ UNCHANGED <<attempts, unrecorded, clock>>

\* The insert fails: the client gets a 500.
RecordLost(p) ==
  /\ at[p] = "failed"
  /\ unrecorded' = unrecorded + 1
  /\ Become(p, "idle")
  /\ UNCHANGED <<events, attempts, clock>>

\* POST /register: a 429 or a 503, or on to the record.
CheckRegister(p) ==
  /\ page = "register" /\ at[p] = "idle" /\ ~AtLimit
  /\ Become(p, "register")
  /\ UNCHANGED <<events, attempts, unrecorded, clock>>

\* The attempt is recorded first; without a record nothing is registered.
Register(p) ==
  /\ at[p] = "register"
  /\ \/ Room /\ events' = Add(events) /\ attempts' = Add(attempts)
     \/ UNCHANGED <<events, attempts>>
  /\ Become(p, "idle")
  /\ UNCHANGED <<unrecorded, clock>>

PassTime ==
  /\ clock < LastTime
  /\ clock' = clock + 1
  /\ UNCHANGED <<page, at, events, attempts, unrecorded>>

\* Mutant: the start prunes events that still count.
PrunedEarly == {e \in events : e.time + 1 >= clock}
Pruned == {e \in events : e.time + Retention >= clock}

\* A stop or crash with posts in flight, and cleanup_expired of the next start.
Restart ==
  /\ events' = Pruned
  /\ at' = [p \in Posts |-> "idle"]
  /\ unrecorded' = unrecorded + Cardinality({p \in Posts : at[p] = "failed"})
  /\ UNCHANGED <<page, attempts, clock>>

AttemptNext ==
  \/ \E p \in Posts :
       \/ CheckLogin(p) \/ LeaveLogin(p) \/ WrongPassword(p) \/ RecordFailure(p) \/ RecordLost(p)
       \/ CheckRegister(p) \/ Register(p)
  \/ PassTime
  \/ Restart

AttemptSpec == AttemptInit /\ [][AttemptNext]_attemptVars

---------------------------------------------------------------------------
RowsIn(rows, from, to) == {e \in rows : from <= e.time /\ e.time <= to}

(* In no window, across restarts and pruning, does an address get further  *)
(* than the limit allows, plus the posts that were in flight together,     *)
(* plus the wrong passwords whose record was lost (oauth/forms.py:111).    *)
LimitHolds ==
  \A start \in Times : start + Window <= LastTime =>
    Cardinality(RowsIn(attempts, start, start + Window))
      <= MaxAttempts - 1 + Cardinality(Posts) + unrecorded
=============================================================================
