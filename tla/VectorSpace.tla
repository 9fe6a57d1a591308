---------------------------- MODULE VectorSpace ----------------------------
(***************************************************************************)
(* The persistent vector cache and the index a session is built from.      *)
(*                                                                         *)
(* Rows are kept under model|dimensions|text.  The key cannot see a        *)
(* gateway that serves another model behind the same id, so before an      *)
(* index is built, rows the store already holds are embedded again and     *)
(* compared.  A vector here is what it embeds and the space it lies in;    *)
(* two vectors of one text agree exactly when their spaces do.  One        *)
(* embedder id and one width: the rows of another are under other keys.    *)
(***************************************************************************)
EXTENDS Integers, FiniteSets

CONSTANTS
    Indexed,    \* what the corpus holds
    Texts,      \* the summaries an asset can have
    Rank,       \* their sorting order
    Spaces      \* the models the gateway can serve behind the one id

ASSUME VectorAssumption ==
    /\ "canary" \notin Texts
    /\ Rank \in [Texts -> Nat]
    /\ \A S \in SUBSET Texts : S # {} => \E t \in S : \A u \in S : Rank[t] <= Rank[u]

VARIABLES
    gateway,    \* the space the gateway embeds in
    corpus,     \* each asset's summary
    store,      \* the rows on disk, by key
    up,         \* a process runs
    opened,     \* what it found when it first used the store
    verified,   \* it has compared this store with its embedder
    step,       \* where its build is
    entries,    \* the summaries the build was given
    absent,     \* the ones the store did not hold
    index,      \* the index last built: each asset's summary and vector
    moved       \* history: repointed under a process that had compared, or made, the store

process == <<up, opened, verified, step, entries, absent, index>>
vectorVars == <<gateway, corpus, store, process, moved>>
-----------------------------------------------------------------------------
CanaryKey == "canary"
Nothing   == [x \in {} |-> x]
Embed(t)  == [of |-> t, in |-> gateway]

(* VectorStore.add: an upsert.                                             *)
Added(texts) ==
    [k \in DOMAIN store \cup texts |-> IF k \in texts THEN Embed(k) ELSE store[k]]

First(texts)  == CHOOSE t \in texts : \A u \in texts : Rank[t] <= Rank[u]
Last(texts)   == CHOOSE t \in texts : \A u \in texts : Rank[t] >= Rank[u]
Middle(texts) == CHOOSE t \in texts :
    Cardinality({u \in texts : Rank[u] < Rank[t]}) = Cardinality(texts) \div 2

Agree(texts) == \A t \in texts : store[t].in = gateway

VectorInit ==
    /\ gateway \in Spaces /\ corpus \in [Indexed -> Texts] /\ store = Nothing
    /\ up = FALSE /\ opened = "no" /\ verified = FALSE /\ step = "idle"
    /\ entries = Nothing /\ absent = {} /\ index = Nothing /\ moved = FALSE

(* The gateway serves another model; nothing tells the process.            *)
Repoint ==
    /\ gateway' \in Spaces \ {gateway}
    /\ moved' = (moved \/ verified \/ opened = "empty")
    /\ UNCHANGED <<corpus, store, process>>

(* A curator rewrites a summary in place, under the same id.               *)
Curate ==
    /\ \E a \in Indexed, t \in Texts : corpus' = [corpus EXCEPT ![a] = t]
    /\ UNCHANGED <<gateway, store, process, moved>>

Fresh ==
    /\ opened' = "no" /\ verified' = FALSE /\ step' = "idle"
    /\ entries' = Nothing /\ absent' = {} /\ index' = Nothing

Start ==
    /\ ~up /\ up' = TRUE
    /\ UNCHANGED <<gateway, corpus, store, moved, opened, verified, step, entries, absent, index>>

(* It ends wherever it is; the rows on disk stay.                          *)
Stop ==
    /\ up /\ up' = FALSE /\ Fresh
    /\ UNCHANGED <<gateway, corpus, store, moved>>

(* What the refusal tells the operator to do.                              *)
DeleteStore ==
    /\ ~up /\ DOMAIN store # {}
    /\ store' = Nothing /\ moved' = FALSE
    /\ UNCHANGED <<gateway, corpus, process>>
-----------------------------------------------------------------------------
(* The first build opens the store, and every build asks what it lacks.    *)
build_index ==
    /\ up /\ step = "idle"
    /\ opened' = IF opened # "no" THEN opened
                 ELSE IF DOMAIN store = {} THEN "empty" ELSE "rows"
    /\ entries' = corpus
    /\ absent' = {corpus[a] : a \in Indexed} \ DOMAIN store
    /\ step' = "check"
    /\ UNCHANGED <<gateway, corpus, store, up, verified, index, moved>>

Passes == step' = "embed" /\ UNCHANGED <<gateway, corpus, up, opened, entries, absent, index, moved>>

BuildEnds == step' = "idle" /\ entries' = Nothing /\ absent' = {}

Refuses == BuildEnds /\ UNCHANGED <<gateway, corpus, up, opened, index, moved>>

Reused == {entries[a] : a \in Indexed} \ absent

(* A store this process created: one reused row, and only when something   *)
(* is to be embedded anyway.                                               *)
CheckCold ==
    /\ step = "check" /\ opened = "empty"
    /\ IF Reused # {} /\ absent # {} /\ ~Agree({First(Reused)}) THEN Refuses ELSE Passes
    /\ UNCHANGED <<store, verified>>

CheckMemo_only_for_misses ==
    /\ step = "check" /\ opened = "rows" /\ (verified \/ absent = {})
    /\ Passes /\ UNCHANGED <<store, verified>>

(* Compared once in this process: not again.                               *)
CheckMemo ==
    /\ step = "check" /\ opened = "rows" /\ verified
    /\ Passes /\ UNCHANGED <<store, verified>>

Probes_of_this_build == IF Reused = {} THEN {} ELSE {First(Reused)}

(* The first, the middle and the last row of the store.                    *)
Probes ==
    LET mine == DOMAIN store \ {CanaryKey} IN
    IF mine = {} THEN {} ELSE {First(mine), Middle(mine), Last(mine)}

(* A store older than its canary: rows of it are compared, then it is      *)
(* minted.                                                                 *)
CheckMint ==
    /\ step = "check" /\ opened = "rows" /\ ~verified /\ CanaryKey \notin DOMAIN store
    /\ IF Agree(Probes)
         THEN Passes /\ store' = Added({CanaryKey}) /\ verified' = TRUE
         ELSE Refuses /\ UNCHANGED <<store, verified>>

CheckCanary ==
    /\ step = "check" /\ opened = "rows" /\ ~verified /\ CanaryKey \in DOMAIN store
    /\ IF Agree({CanaryKey}) THEN Passes /\ verified' = TRUE ELSE Refuses /\ UNCHANGED verified
    /\ UNCHANGED store

EmbedMisses ==
    /\ step = "embed" /\ step' = "load"
    /\ store' = Added(absent)
    /\ UNCHANGED <<gateway, corpus, up, opened, verified, entries, absent, index, moved>>

(* The provider fails or answers short: the build raises, the session      *)
(* built before stays.                                                     *)
EmbedRaises ==
    /\ \/ step = "check" /\ opened = "rows" /\ ~verified
       \/ step = "check" /\ opened = "empty" /\ Reused # {} /\ absent # {}
       \/ step = "embed" /\ absent # {}
    /\ BuildEnds
    /\ UNCHANGED <<gateway, corpus, store, up, opened, verified, index, moved>>

(* load_from: the rows, keyed again by asset.                              *)
Load ==
    /\ step = "load" /\ BuildEnds
    /\ index' = [a \in Indexed |-> [summary |-> entries[a], vector |-> store[entries[a]]]]
    /\ UNCHANGED <<gateway, corpus, store, up, opened, verified, moved>>

Build ==
    \/ build_index \/ CheckCold \/ CheckMemo \/ CheckMint \/ CheckCanary
    \/ EmbedMisses \/ EmbedRaises \/ Load

VectorNext == Repoint \/ Curate \/ Start \/ Stop \/ DeleteStore \/ Build

VectorSpec == VectorInit /\ [][VectorNext]_vectorVars
-----------------------------------------------------------------------------
Vectors == [of : Texts \cup {CanaryKey}, in : Spaces]

(* Every variable has its type.                                            *)
VectorTypeOK ==
    /\ gateway \in Spaces /\ corpus \in [Indexed -> Texts]
    /\ DOMAIN store \subseteq Texts \cup {CanaryKey}
    /\ \A k \in DOMAIN store : store[k] \in Vectors
    /\ up \in BOOLEAN /\ opened \in {"no", "empty", "rows"} /\ verified \in BOOLEAN
    /\ step \in {"idle", "check", "embed", "load"}
    /\ entries = Nothing \/ entries \in [Indexed -> Texts]
    /\ absent \subseteq Texts
    /\ index = Nothing \/ index \in [Indexed -> [summary : Texts, vector : Vectors]]
    /\ moved \in BOOLEAN

(* Every vector of a served index embeds its asset's summary, and all lie  *)
(* in the space the questions are embedded in, wherever processes end and  *)
(* builds fail, whatever is rewritten between builds and whichever models  *)
(* the gateway served while nothing that had compared the store was up.    *)
IndexIsInTheEmbeddersSpace ==
    ~moved => \A a \in DOMAIN index :
                  /\ index[a].vector.of = index[a].summary
                  /\ index[a].vector.in = gateway

=============================================================================
