-------------------------- MODULE RuntimeOverrides --------------------------
(***************************************************************************)
(* The operator's switches: a file of overrides and the process's cache of *)
(* it.  The first reader loads the file; a switch copies the cache,        *)
(* changes one knob, writes the whole file and then replaces the cache.    *)
(* Routes run in worker threads and nothing orders their steps.            *)
(***************************************************************************)
EXTENDS ProcessThreads

CONSTANTS
    TOGGLEABLE,  \* the knobs an operator may switch
    NoCache      \* nothing was loaded yet

VARIABLES
    OVERRIDE_PATH,  \* the file: the knobs an operator switched on
    override_cache, \* _cache
    switching,      \* each thread's step, and the values it holds
    settled,        \* history: what the routes that returned leave in force
    torn            \* history: two of them overlapped, or one was cut

overrides_vars == <<OVERRIDE_PATH, override_cache, switching, settled, torn>>
-----------------------------------------------------------------------------
Resting == [at |-> "rest", knob |-> NoCache, values |-> {}]

SwitchSteps == {"rest", "load", "cache", "copy", "open", "fill", "keep"}

SwitchGoes(t, step) == switching' = [switching EXCEPT ![t] = step]

Touching == {t \in Threads : switching[t].at # "rest"}

(* A knob is on or absent; clear_override removes it.  Either may say what *)
(* holds already.                                                          *)
Switched(values, knob, on) == IF on THEN values \cup {knob} ELSE values \ {knob}

OverridesInit ==
    /\ OVERRIDE_PATH \in SUBSET TOGGLEABLE /\ override_cache = NoCache
    /\ switching = [t \in Threads |-> Resting]
    /\ settled = OVERRIDE_PATH /\ torn = FALSE

(* A turn that starts, and a switch before it copies, ask for overrides(). *)
overrides(t, knob) ==
    /\ switching[t].at = "rest"
    /\ SwitchGoes(t, [Resting EXCEPT !.knob = knob,
                        !.at = CASE override_cache = NoCache -> "load"
                                 [] override_cache # NoCache /\ knob = NoCache -> "rest"
                                 [] OTHER -> "copy"])
    /\ torn' = (torn \/ Touching # {})
    /\ UNCHANGED <<OVERRIDE_PATH, override_cache, settled>>

LoadsOverrides(t) ==
    /\ switching[t].at = "load"
    /\ SwitchGoes(t, [switching[t] EXCEPT !.at = "cache", !.values = OVERRIDE_PATH])
    /\ UNCHANGED <<OVERRIDE_PATH, override_cache, settled, torn>>

CachesOverrides(t) ==
    /\ switching[t].at = "cache"
    /\ override_cache' = switching[t].values
    /\ SwitchGoes(t, IF switching[t].knob = NoCache THEN Resting
                     ELSE [switching[t] EXCEPT !.at = "copy"])
    /\ UNCHANGED <<OVERRIDE_PATH, settled, torn>>

(* set_override and clear_override: the copy, then write_text, which       *)
(* empties the file before it fills it; a file that is empty reads as no   *)
(* override at all.                                                        *)
CopiesOverrides(t) ==
    /\ switching[t].at = "copy"
    /\ \E on \in BOOLEAN :
         SwitchGoes(t, [switching[t] EXCEPT !.at = "open",
                          !.values = Switched(override_cache, switching[t].knob, on)])
    /\ UNCHANGED <<OVERRIDE_PATH, override_cache, settled, torn>>

OpensOverrides(t) ==
    /\ switching[t].at = "open"
    /\ OVERRIDE_PATH' = {}
    /\ SwitchGoes(t, [switching[t] EXCEPT !.at = "fill"])
    /\ UNCHANGED <<override_cache, settled, torn>>

FillsOverrides(t) ==
    /\ switching[t].at = "fill"
    /\ OVERRIDE_PATH' = switching[t].values
    /\ SwitchGoes(t, [switching[t] EXCEPT !.at = "keep"])
    /\ UNCHANGED <<override_cache, settled, torn>>

Settling(t) == LET knob == switching[t].knob
               IN  Switched(settled, knob, knob \in switching[t].values)

KeepsOverrides_on_file_only(t) ==
    /\ switching[t].at = "keep"
    /\ settled' = Settling(t)
    /\ SwitchGoes(t, Resting)
    /\ UNCHANGED <<OVERRIDE_PATH, override_cache, torn>>

KeepsOverrides(t) ==
    /\ switching[t].at = "keep"
    /\ override_cache' = switching[t].values
    /\ settled' = Settling(t)
    /\ SwitchGoes(t, Resting)
    /\ UNCHANGED <<OVERRIDE_PATH, torn>>

OverridesRestart ==
    /\ override_cache' = NoCache
    /\ switching' = [t \in Threads |-> Resting]
    /\ torn' = (torn \/ Touching # {})
    /\ UNCHANGED <<OVERRIDE_PATH, settled>>
-----------------------------------------------------------------------------
OverridesTypeOK ==
    /\ OVERRIDE_PATH \subseteq TOGGLEABLE /\ settled \subseteq TOGGLEABLE
    /\ override_cache \in (SUBSET TOGGLEABLE) \cup {NoCache}
    /\ switching \in [Threads -> [at : SwitchSteps, knob : TOGGLEABLE \cup {NoCache},
                                  values : SUBSET TOGGLEABLE]]
    /\ torn \in BOOLEAN

(* A switch whose route returned is in force: the file holds exactly what  *)
(* the operators' routes settled, the next process will load it, and turns *)
(* of this one already see it -- for as long as no two of them overlapped  *)
(* and no process ended inside one.                                        *)
SwitchesAreInForce ==
    ~torn /\ Touching = {} =>
        OVERRIDE_PATH = settled /\ override_cache \in {NoCache, settled}
=============================================================================
