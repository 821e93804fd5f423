----------------------------- MODULE MCScheduling -----------------------------
(***************************************************************************)
(* Two departments; the first has two courses, a large and a small room,   *)
(* and students for one cohort that needs the large room or two cohorts    *)
(* that fit either.                                                        *)
(***************************************************************************)
EXTENDS SchedulingTurns, TLC

CONSTANTS se, ee, algo, net, power, hall, lab, shed, ann, bob, p1, p2

MCDept == algo :> se @@ net :> se @@ power :> ee
MCSemester == algo :> 1 @@ net :> 1 @@ power :> 1
MCCreditHours == algo :> 3 @@ net :> 1 @@ power :> 1
MCOwner == hall :> se @@ lab :> se @@ shed :> ee
MCCapacity == hall :> 3 @@ lab :> 2 @@ shed :> 1
MCCohort == [n \in 1..5 |-> [dept |-> IF n = 5 THEN ee ELSE se, semester |-> 1]]

Symmetry == Permutations({p1, p2})

MCMaxRuns == se :> 3 @@ ee :> 2

VARIABLES
    scene,       \* what is scheduled, see Within
    swaps        \* classes that have been reassigned

Scenes == {"both", "one", "overlap", "crowd"}

Starts(op) == {p \in Busy' \ Busy : request'[p].op = op}

(* Bounds.  In turns, with both departments each runs twice; with the one  *)
(* department a fourth student registers late, a section is graded and a   *)
(* class reassigned.                                                       *)
Both ==
    /\ registered' = registered /\ referenced' = {} /\ swaps' = 0
    /\ \A d \in Departments : runs'[d] <= 2
    /\ \A p \in Starts("assign") :
          <<request'[p].course, request'[p].instructor>> \in {<<algo, ann>>, <<algo, bob>>, <<power, ann>>}

One ==
    /\ swaps' <= 1
    /\ runs'[ee] = 0 /\ 5 \notin registered'
    /\ Cardinality(referenced') <= 1 /\ \A s \in referenced' : s.code = 1
    /\ \A p \in Starts("assign") :
          <<request'[p].course, request'[p].instructor>> \in {<<algo, ann>>, <<net, ann>>}

(* Requests overlap, about one section.  Assignments and reassignments are *)
(* checked apart.                                                          *)
Overlap ==
    /\ registered' = registered /\ referenced' = {} /\ swaps' <= 2
    /\ runs'[ee] = 0 /\ runs'[se] <= 3
    /\ \A p \in Starts("assign") :
          <<request'[p].course, request'[p].instructor>> \in {<<algo, ann>>, <<algo, bob>>}
    /\ Len(assignments') <= IF swaps' > 0 THEN 0 ELSE 2

(* Generations overlap that cannot place everything: one instructor for    *)
(* both courses of two sections.  The second of them can then keep the     *)
(* classes of the first and delete its conflicts.                          *)
Crowd ==
    /\ registered' = registered /\ referenced' = {} /\ swaps' = 0
    /\ runs'[ee] = 0 /\ runs'[se] <= 3
    /\ \A p \in Starts("allocate") : runs[se] = 0 /\ Len(assignments) = 2
    /\ \A p \in Starts("assign") :
          /\ Busy = {} /\ runs[se] = 0
          /\ request'[p].row = 0 /\ request'[p].instructor = ann
          /\ request'[p].course = IF assignments = << >> THEN algo ELSE net
    /\ \A k \in DOMAIN assignments' : assignments'[k].instructor # NoOne
    /\ Busy' # {} => \/ Busy = {} \/ runs[se] > 0

MCInit ==
    /\ TurnsInit
    /\ scene \in Scenes /\ (turns <=> scene \in {"both", "one"})
    /\ registered = CASE scene = "both" -> {1, 2, 3, 5}
                      [] scene = "crowd" -> {1, 2, 3, 4}
                      [] OTHER -> {1, 2, 3}
    /\ swaps = 0
MCNext ==
    /\ TurnsNext
    /\ UNCHANGED scene
    /\ swaps' = swaps + Cardinality({p \in Slots : request'[p].op = "reassign" /\ request[p].op # "reassign"})
    /\ \A p \in Starts("reassign") : request'[p].target.course = net
    /\ CASE scene = "both" -> Both [] scene = "one" -> One
         [] scene = "overlap" -> Overlap [] scene = "crowd" -> Crowd
MCSpec == MCInit /\ [][MCNext]_<<vars, turns, scene, swaps>>
=============================================================================
