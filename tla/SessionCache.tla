---------------------------- MODULE SessionCache ----------------------------
(***************************************************************************)
(* The session a serving process answers from, cached until the corpus is  *)
(* declared to have moved, and the trusted constants the nodes of every    *)
(* turn read.  A turn's accept node asks for the session: it takes the     *)
(* cached one when its generation is current, or reads the corpus and      *)
(* installs a new one, in its own thread and without a lock.  What the     *)
(* corpus on disk serves is the parameter served.                          *)
(***************************************************************************)
EXTENDS ProcessThreads, Integers

CONSTANT NoSession

VARIABLES
    session,            \* _SESSION: the facts its assets and its digest name
    session_generation, \* _SESSION_GENERATION
    corpus_generation,  \* _CORPUS_GENERATION
    trusted,            \* _TRUSTED: the facts its index serves, or cleared
    turn                \* each thread's turn

cache == <<session, session_generation, corpus_generation, trusted, turn>>
-----------------------------------------------------------------------------
NoTurn == [at |-> "none", session |-> NoSession, read |-> NoSession]

TurnSteps == {"none", "load", "install", "clear", "fill", "accepted", "read"}

CacheInit(served) ==
    /\ session = served
    /\ session_generation = 0 /\ corpus_generation = 0
    /\ trusted = served
    /\ turn = [t \in Threads |-> NoTurn]

Current == session # NoSession /\ session_generation = corpus_generation

TurnGoes(t, step) == turn' = [turn EXCEPT ![t] = step]

Building(t) == turn[t].at \in {"load", "install"}

(* accept stamps the turn with the digest of the session it was given.     *)
Accepts(s) == [NoTurn EXCEPT !.at = "accepted", !.session = s]

session_from_environment(t) ==
    /\ TurnGoes(t, IF Current THEN Accepts(session) ELSE [NoTurn EXCEPT !.at = "load"])
    /\ UNCHANGED <<session, session_generation, corpus_generation, trusted>>

LoadsCorpus(t, served) ==
    /\ turn[t].at = "load"
    /\ TurnGoes(t, [turn[t] EXCEPT !.at = "install", !.session = served])
    /\ UNCHANGED <<session, session_generation, corpus_generation, trusted>>

(* The database, a credential or the embedder can fail a build: accept     *)
(* raises and nothing is installed.                                        *)
BuildFails(t) ==
    /\ Building(t)
    /\ TurnGoes(t, NoTurn)
    /\ UNCHANGED <<session, session_generation, corpus_generation, trusted>>

Installs(t) ==
    /\ turn[t].at = "install"
    /\ session' = turn[t].session
    /\ session_generation' = corpus_generation
    /\ TurnGoes(t, [turn[t] EXCEPT !.at = "clear"])
    /\ UNCHANGED <<corpus_generation, trusted>>

(* trust empties the mapping in place and then fills it.                   *)
TrustClears(t) ==
    /\ turn[t].at = "clear"
    /\ trusted' = NoSession
    /\ TurnGoes(t, [turn[t] EXCEPT !.at = "fill"])
    /\ UNCHANGED <<session, session_generation, corpus_generation>>

TrustFills(t) ==
    /\ turn[t].at = "fill"
    /\ trusted' = turn[t].session
    /\ TurnGoes(t, Accepts(turn[t].session))
    /\ UNCHANGED <<session, session_generation, corpus_generation>>

(* A retrieval node copies the trusted constants over its config.          *)
NodeReads(t) ==
    /\ turn[t].at = "accepted"
    /\ TurnGoes(t, [turn[t] EXCEPT !.at = "read", !.read = trusted])
    /\ UNCHANGED <<session, session_generation, corpus_generation, trusted>>

TurnEnds(t) ==
    /\ turn[t].at = "read"
    /\ TurnGoes(t, NoTurn)
    /\ UNCHANGED <<session, session_generation, corpus_generation, trusted>>

corpus_changed ==
    /\ corpus_generation' = corpus_generation + 1
    /\ UNCHANGED <<session, session_generation, trusted, turn>>

(* A new process reads the corpus on its first turn.                       *)
CacheRestarts ==
    /\ session' = NoSession /\ session_generation' = -1 /\ corpus_generation' = 0
    /\ trusted' = NoSession
    /\ turn' = [t \in Threads |-> NoTurn]
-----------------------------------------------------------------------------
CacheTypeOK ==
    /\ session \in (SUBSET Facts) \cup {NoSession}
    /\ session_generation \in Int /\ corpus_generation \in Nat
    /\ session_generation <= corpus_generation
    /\ trusted \in (SUBSET Facts) \cup {NoSession}
    /\ turn \in [Threads -> [at : TurnSteps, session : (SUBSET Facts) \cup {NoSession},
                             read : (SUBSET Facts) \cup {NoSession}]]
=============================================================================
