------------------------------ MODULE WordFilter ------------------------------
(***************************************************************************)
(* The membership filter of one shard (yagonode/internal/shardvault,       *)
(* wordfilter.go and word_filter_maintenance.go): a reader of the word     *)
(* index skips the shard when its filter rules the term out.               *)
(*                                                                         *)
(* A filter is built in the background from the keys of the shard, read    *)
(* page by page under the shared side of the gate, which is given back     *)
(* between the pages.  Writes go on meanwhile and note their terms beside  *)
(* the filter; compaction, under the exclusive side, puts a new filter in  *)
(* its place.  A key is its term, and the fuse filter is exact: that it    *)
(* may admit more changes nothing here.                                    *)
(***************************************************************************)
EXTENDS Integers, FiniteSetsExt

CONSTANTS
    MaxTerm,        \* terms are 1 .. MaxTerm, in the order of the keys
    PageRecords     \* wordFilterMaintenancePageRecords

VARIABLES
    stored,         \* the terms of the committed keys of the shard
    writing,        \* terms put by updates that have not committed
    filter,         \* the filter in place
    pending,        \* the shard is scheduled for a build
    build           \* the build in progress

vars == <<stored, writing, filter, pending, build>>

Terms == 1 .. MaxTerm

Degraded == [degraded |-> TRUE, static |-> {}, side |-> {}]
NoBuild == [stage |-> "idle", after |-> 0, terms |-> {}]

TypeOK ==
    /\ stored \subseteq Terms /\ writing \subseteq Terms
    /\ filter \in [degraded : BOOLEAN, static : SUBSET Terms, side : SUBSET Terms]
    /\ pending \in BOOLEAN
    /\ build \in [stage : {"idle", "collect", "publish"}, after : 0 .. MaxTerm,
                  terms : SUBSET Terms]

(* installConservativeWordFilters, over whatever the shard already holds.  *)
Init ==
    /\ stored \in SUBSET Terms
    /\ writing = {}
    /\ filter = Degraded
    /\ pending = TRUE
    /\ build = NoBuild

MayContain(t) == filter.degraded \/ t \in filter.static \cup filter.side

(* noteWordKey, inside the transaction and so under the shared gate; a key *)
(* that is stored already is not written again.                            *)
Put(t) ==
    /\ t \notin stored \cup writing
    /\ writing' = writing \cup {t}
    /\ filter' = [filter EXCEPT !.side = @ \cup {t}]
    /\ UNCHANGED <<stored, pending, build>>

EndUpdate(t) ==
    /\ t \in writing
    /\ writing' = writing \ {t}
    /\ stored' \in {stored, stored \cup {t}}
    /\ UNCHANGED <<filter, pending, build>>

Delete(t) ==
    /\ t \in stored
    /\ stored' = stored \ {t}
    /\ UNCHANGED <<writing, filter, pending, build>>

TakePending ==
    /\ build.stage = "idle" /\ pending
    /\ pending' = FALSE
    /\ build' = [NoBuild EXCEPT !.stage = "collect"]
    /\ UNCHANGED <<stored, writing, filter>>

(* readWordFilterPage: the next keys of the shard, at most a page of them. *)
Page ==
    {t \in stored : t > build.after /\
        Cardinality({x \in stored : build.after < x /\ x < t}) < PageRecords}

(* collectWordFilterTerms.                                                 *)
Collect ==
    /\ build.stage = "collect"
    /\ build' = IF \E t \in stored : t > build.after /\ t \notin Page
                THEN [build EXCEPT !.after = Max(Page), !.terms = @ \cup Page]
                ELSE [build EXCEPT !.stage = "publish", !.terms = @ \cup Page]
    /\ UNCHANGED <<stored, writing, filter, pending>>

(* optimizeWordFilter, under the exclusive gate: the collected terms take  *)
(* the place of the filter that is there now, and keep its side set.       *)
Publish ==
    /\ build.stage = "publish" /\ writing = {}
    /\ filter' = [degraded |-> FALSE, static |-> build.terms, side |-> filter.side]
    /\ build' = NoBuild
    /\ UNCHANGED <<stored, writing, pending>>

(* A page cannot be read or the filter not be constructed.                 *)
BuildFails ==
    /\ build.stage # "idle"
    /\ build' = NoBuild
    /\ UNCHANGED <<stored, writing, filter, pending>>

(* compactShard and scheduleWordFilterRebuild, under the exclusive gate.   *)
Compact ==
    /\ writing = {}
    /\ filter' = Degraded
    /\ pending' = TRUE
    /\ UNCHANGED <<stored, writing, build>>

Next ==
    \/ \E t \in Terms : Put(t) \/ EndUpdate(t) \/ Delete(t)
    \/ TakePending \/ Collect \/ Publish \/ BuildFails
    \/ Compact

Spec == Init /\ [][Next]_vars

-----------------------------------------------------------------------------
(* The filter never rules out a term the shard holds, so that a reader who *)
(* skips the shard misses nothing: a committed key is in the static set or *)
(* in the side set, or the filter is degraded.                             *)
FilterNeverHides == \A t \in stored : MayContain(t)

=============================================================================
