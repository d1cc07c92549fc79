-------------------------------- MODULE Gate --------------------------------
(***************************************************************************)
(* The sign-in gate of an installation: internal/access/gate.go and the    *)
(* access file it opens, internal/access/access.go.                        *)
(*                                                                         *)
(* One password seals one data key in the access file. A handler signs in  *)
(* or changes the password in several steps, and other handlers, sign-outs *)
(* and the clock run between them. The one-slot channel g.derive admits    *)
(* one derivation at a time and is held from the read of the file to the   *)
(* change of the session table, so it is what orders sign-ins and password *)
(* changes.                                                                *)
(*                                                                         *)
(* Requests refused before they reach the slot (method, transport, origin, *)
(* body, the attempt allowance) change nothing here and are no steps of    *)
(* this module; the attempt allowance is module GateAttempts.              *)
(***************************************************************************)
EXTENDS Integers, FiniteSets

CONSTANTS
  Handlers,     \* concurrent requests to /api/v1/session and /api/v1/password
  Passwords,    \* passwords long enough to be chosen
  Tokens,       \* session tokens; 32 random bytes never repeat
  Keys,         \* data keys
  SessionLife,  \* ticks a session lasts
  MaxSessions,  \* size of the session table, 32 in the code
  MaxTime,      \* bound: the clock stops here
  MaxSeals,     \* bound: how many times the key is sealed
  NoKey, NoToken, Free

ASSUME GateAssumption ==
  /\ SessionLife \in Nat \ {0}
  /\ MaxSessions \in Nat \ {0}
  /\ MaxTime \in Nat
  /\ MaxSeals \in Nat
  /\ NoKey \notin Keys
  /\ NoToken \notin Tokens
  /\ Free \notin Handlers
  /\ IsFiniteSet(Tokens)

VARIABLES
  now,
  up,       \* the process is running
  file,     \* the access file: what opens it, what it seals, and which seal it is
  key,      \* g.key: the data key in memory, NoKey until the first sign-in
  slot,     \* g.derive: the handler that holds the slot, or Free
  pc, req,  \* where each handler is, and the request it serves
  read,     \* what each handler read from the access file
  sessions, \* g.sessions, with the seal each session's password opened as history
  changer   \* history: the session that last changed the password

vars == <<now, up, file, key, slot, pc, req, read, sessions, changer>>

\* `seal' stands for the random salt and nonce of one seal: a new number each
\* time, so that a session can be traced to the password that opened it.
AccessFile == [password : Passwords, key : Keys, seal : Nat]
Request == [op : {"signIn", "change"}, cookie : Tokens \cup {NoToken},
            password : Passwords, next : Passwords]
Session == [until : Nat, seal : Nat]
Holding == {"deriving", "unlocked", "saved"}

\* What the locals of a handler are while it serves nothing.
NoRequest == [op |-> "none"]
Nothing == [seal |-> -1]

\* The sessions in the table, and the table with only those of S left.
Open == DOMAIN sessions
Only(S) == [t \in S |-> sessions[t]]

TypeOK ==
  /\ now \in Nat
  /\ up \in BOOLEAN
  /\ file \in AccessFile
  /\ key \in Keys \cup {NoKey}
  /\ slot \in Handlers \cup {Free}
  /\ pc \in [Handlers -> {"idle", "waiting"} \cup Holding]
  /\ req \in [Handlers -> Request \cup {NoRequest}]
  /\ read \in [Handlers -> AccessFile \cup {Nothing}]
  /\ \A h \in Handlers : pc[h] # "idle" => req[h] \in Request
  /\ \A h \in Handlers : pc[h] \in {"unlocked", "saved"} => read[h] \in AccessFile
  /\ Open \subseteq Tokens
  /\ sessions \in [Open -> Session]
  /\ changer \in Tokens \cup {NoToken}

Init ==
  /\ now = 0
  /\ up = TRUE
  /\ file \in [password : Passwords, key : Keys, seal : {0}]
  /\ key = NoKey
  /\ slot = Free
  /\ pc = [h \in Handlers |-> "idle"]
  /\ req = [h \in Handlers |-> NoRequest]
  /\ read = [h \in Handlers |-> Nothing]
  /\ sessions = [t \in {} |-> 0]
  /\ changer = NoToken

-----------------------------------------------------------------------------
(* The session table. *)

\* valid: a session in the table whose end has not come.
Live(t) == t \in Open /\ now < sessions[t].until

\* A token is 32 random bytes, so a new one is nobody's cookie: not one in the
\* table, and not one a request under way carries. Tokens no longer in use
\* stand for fresh ones, which keeps the set small.
Fresh(t) == t \notin Open /\ \A h \in Handlers : pc[h] # "idle" => req[h].cookie # t

\* The sessions signIn leaves before it adds its own: expired ones go, then
\* the ones that end first until there is room for one more.
Unexpired == {t \in Open : Live(t)}
\* (Faults: any session makes room; room is made one too late.)
KeptInAnyOrder(kept) ==
  /\ kept \subseteq Unexpired
  /\ \/ Cardinality(Unexpired) < MaxSessions /\ kept = Unexpired
     \/ Cardinality(Unexpired) >= MaxSessions /\ Cardinality(kept) = MaxSessions - 1
KeptOneTooMany(kept) ==
  /\ kept \subseteq Unexpired
  /\ \/ Cardinality(Unexpired) <= MaxSessions /\ kept = Unexpired
     \/ Cardinality(Unexpired) > MaxSessions /\ Cardinality(kept) = MaxSessions - 1
KeptForOneMore(kept) ==
  /\ kept \subseteq Unexpired
  /\ \/ /\ Cardinality(Unexpired) < MaxSessions
        /\ kept = Unexpired
     \/ /\ Cardinality(Unexpired) >= MaxSessions
        /\ Cardinality(kept) = MaxSessions - 1
        /\ \A s \in Unexpired \ kept, t \in kept : sessions[s].until <= sessions[t].until

\* Any request that shows a cookie whose session has run out removes it.
ExpireOnUse(t) ==
  /\ up
  /\ t \in Open
  /\ sessions[t].until <= now
  /\ sessions' = Only(Open \ {t})
  /\ UNCHANGED <<now, up, file, key, slot, pc, req, read, changer>>

SignOut(t) ==
  /\ up
  /\ t \in Open
  /\ sessions' = Only(Open \ {t})
  /\ UNCHANGED <<now, up, file, key, slot, pc, req, read, changer>>

-----------------------------------------------------------------------------
(* The two handlers. *)

\* The handler has answered; its locals are gone.
Answer(h) ==
  /\ pc' = [pc EXCEPT ![h] = "idle"]
  /\ req' = [req EXCEPT ![h] = NoRequest]
  /\ read' = [read EXCEPT ![h] = Nothing]

ReceiveSignIn(h, p) ==
  /\ up
  /\ pc[h] = "idle"
  /\ pc' = [pc EXCEPT ![h] = "waiting"]
  /\ req' = [req EXCEPT ![h] = [op |-> "signIn", cookie |-> NoToken,
                                password |-> p, next |-> p]]
  /\ UNCHANGED <<now, up, file, key, slot, read, sessions, changer>>

\* servePassword looks at the session once, here, before it waits.
ReceiveChange(h, t, p, n) ==
  /\ up
  /\ pc[h] = "idle"
  /\ Live(t)
  /\ pc' = [pc EXCEPT ![h] = "waiting"]
  /\ req' = [req EXCEPT ![h] = [op |-> "change", cookie |-> t,
                                password |-> p, next |-> n]]
  /\ UNCHANGED <<now, up, file, key, slot, read, sessions, changer>>

\* (Fault: a channel with room for more than one derivation.)
TakeAnySlot(h) ==
  /\ pc[h] = "waiting"
  /\ slot' = h
  /\ pc' = [pc EXCEPT ![h] = "deriving"]
  /\ UNCHANGED <<now, up, file, key, req, read, sessions, changer>>
TakeSlot(h) ==
  /\ pc[h] = "waiting"
  /\ slot = Free
  /\ slot' = h
  /\ pc' = [pc EXCEPT ![h] = "deriving"]
  /\ UNCHANGED <<now, up, file, key, req, read, sessions, changer>>

\* Three seconds passed. The select takes either case when both are ready, so
\* the slot may be free by now.
Busy(h) ==
  /\ pc[h] = "waiting"
  /\ Answer(h)
  /\ UNCHANGED <<now, up, file, key, slot, sessions, changer>>

\* Unlock reads the file once; the derivation and the check that follow are
\* about what was read.
Unlock(h) ==
  /\ pc[h] = "deriving"
  /\ req[h].password = file.password
  /\ read' = [read EXCEPT ![h] = file]
  /\ pc' = [pc EXCEPT ![h] = "unlocked"]
  /\ UNCHANGED <<now, up, file, key, slot, req, sessions, changer>>

\* A wrong password, a new one that is too short, a file that cannot be read or
\* written: the deferred receive gives the slot back, and nothing else changes.
\* (Fault: an early return without the receive.)
RefuseKeepsSlot(h) ==
  /\ pc[h] \in {"deriving", "unlocked"}
  /\ Answer(h)
  /\ UNCHANGED <<now, up, file, key, slot, sessions, changer>>

Refuse(h) ==
  /\ pc[h] \in {"deriving", "unlocked"}
  /\ Answer(h)
  /\ slot' = Free
  /\ UNCHANGED <<now, up, file, key, sessions, changer>>

\* The end of signIn, under g.mu: the key on the first sign-in, the expired and
\* the oldest sessions out, the new one in; then the slot.
OpenSession(h, t) ==
  /\ pc[h] = "unlocked"
  /\ req[h].op = "signIn"
  /\ Fresh(t)
  /\ key' = IF key = NoKey THEN read[h].key ELSE key
  /\ \E kept \in SUBSET Unexpired :
       /\ KeptForOneMore(kept)
       /\ sessions' = [s \in kept \cup {t} |->
                        IF s = t THEN [until |-> now + SessionLife, seal |-> read[h].seal]
                                 ELSE sessions[s]]
  /\ slot' = Free
  /\ Answer(h)
  /\ UNCHANGED <<now, up, file, changer>>

\* The rename that ends Change: the same key under the new password.
\* (Fault: the new password seals a key of its own.)
SaveFileUnderNewKey(h) ==
  /\ pc[h] = "unlocked"
  /\ req[h].op = "change"
  /\ file.seal < MaxSeals
  /\ \E k \in Keys : file' = [password |-> req[h].next, key |-> k, seal |-> file.seal + 1]
  /\ changer' = req[h].cookie
  /\ pc' = [pc EXCEPT ![h] = "saved"]
  /\ UNCHANGED <<now, up, key, slot, req, read, sessions>>
SaveFile(h) ==
  /\ pc[h] = "unlocked"
  /\ req[h].op = "change"
  /\ file.seal < MaxSeals
  /\ file' = [password |-> req[h].next, key |-> read[h].key, seal |-> file.seal + 1]
  /\ changer' = req[h].cookie
  /\ pc' = [pc EXCEPT ![h] = "saved"]
  /\ UNCHANGED <<now, up, key, slot, req, read, sessions>>

KeepOnly(h) ==
  /\ pc[h] = "saved"
  /\ sessions' = Only(Open \cap {req[h].cookie})
  /\ slot' = Free
  /\ Answer(h)
  /\ UNCHANGED <<now, up, file, key, changer>>

-----------------------------------------------------------------------------
(* The clock, and the process around it. *)

Tick ==
  /\ now < MaxTime
  /\ now' = now + 1
  /\ UNCHANGED <<up, file, key, slot, pc, req, read, sessions, changer>>

\* The process stops, however it stops. What was in memory is gone; the rename
\* has happened or it has not.
Stop ==
  /\ up
  /\ up' = FALSE
  /\ key' = NoKey
  /\ slot' = Free
  /\ pc' = [h \in Handlers |-> "idle"]
  /\ req' = [h \in Handlers |-> NoRequest]
  /\ read' = [h \in Handlers |-> Nothing]
  /\ sessions' = [t \in {} |-> 0]
  /\ changer' = NoToken
  /\ UNCHANGED <<now, file>>

Start ==
  /\ ~up
  /\ up' = TRUE
  /\ UNCHANGED <<now, file, key, slot, pc, req, read, sessions, changer>>

\* The operator deleted the access file and starts again: a new password, and a
\* new random key.
Recreate(p, k) ==
  /\ ~up
  /\ file.seal < MaxSeals
  /\ k # file.key
  /\ file' = [password |-> p, key |-> k, seal |-> file.seal + 1]
  /\ up' = TRUE
  /\ UNCHANGED <<now, key, slot, pc, req, read, sessions, changer>>

Work(h) ==
  \/ TakeSlot(h) \/ Busy(h) \/ Unlock(h) \/ Refuse(h) \/ SaveFile(h) \/ KeepOnly(h)
  \/ \E t \in Tokens : OpenSession(h, t)

Next ==
  \/ \E t \in Tokens : ExpireOnUse(t) \/ SignOut(t)
  \/ \E h \in Handlers, p \in Passwords : ReceiveSignIn(h, p)
  \/ \E h \in Handlers, t \in Tokens, p, n \in Passwords : ReceiveChange(h, t, p, n)
  \/ \E h \in Handlers : Work(h)
  \/ Tick \/ Stop \/ Start
  \/ \E p \in Passwords, k \in Keys : Recreate(p, k)

Spec == Init /\ [][Next]_vars

-----------------------------------------------------------------------------
(* What the gate promises. *)

\* "Every other session ends, so a password changed because it leaked stops
\* working everywhere it leaked to" (servePassword): once a change is complete,
\* every session in the table was opened by the password now in force, but for
\* the one session that made the last change. No sign-in that began under the
\* old password may add its session afterwards.
OldPasswordSessionsEnd ==
  \A t \in Open :
    sessions[t].seal < file.seal => t = changer \/ \E h \in Handlers : pc[h] = "saved"

\* "Seals the same data key under a new password" (Change): the key the process
\* encrypts with is the key in the access file, so that what it keeps opens
\* after the next start.
KeyIsTheFiles == key # NoKey => key = file.key

\* The table holds maxSessions sessions at most (signIn makes room before it adds).
SessionsBounded == Cardinality(Open) <= MaxSessions
GateTypeOK == TypeOK /\ SessionsBounded

\* "The oldest goes first" (maxSessions): a sign-in ends a session only if it has
\* run out, or if the table is full and no session that stays ends before it.
OldestGoesFirst ==
  [][Open' \ Open # {} =>
       \A s \in Open \ Open' :
         \/ sessions[s].until <= now
         \/ /\ Cardinality(Open) >= MaxSessions
            /\ \A t \in Open \cap Open' : sessions[s].until <= sessions[t].until]_vars

\* Whoever takes the derivation slot gives it back on every path out of the
\* handler: no slot is held by a handler that has answered. Were one left behind,
\* nobody could sign in again until the process is restarted.
SlotIsNotOrphaned == slot # Free => pc[slot] \in Holding
=============================================================================
