------------------------------ MODULE Discover ------------------------------
(***************************************************************************)
(* Discovery's walk over a share (internal/engine/discover.go), one        *)
(* directory listing (localfs.go, List) after another, while the engine      *)
(* writes to it.  Listings are sorted, directories first; which names come   *)
(* first among files, or which directory is next, is left open.             *)
(***************************************************************************)
EXTENDS LocalFS

CONSTANTS
  SaveLike,        \* files whose extension is a save's
  MaxScanDepth,
  MaxScanEntries,
  MaxListEntries

ASSUME DiscoverAssumption ==
  /\ MaxScanDepth \in Nat /\ MaxScanEntries \in Nat
  /\ MaxListEntries \in Nat /\ MaxListEntries > MaxScanEntries

VARIABLES
  scan,    \* a walk: its stack of directories, what it has visited and found
  there    \* history: the files in place since the walk began

scanVars == <<scan, there>>

Scanning == scan # None

In(d) == {e \in Entries : Parent[e] = d /\ Present(e)}

(* The temporary files of writes in progress are entries too. *)
TempsIn(d) ==
  {c \in Callers : Calling(c) /\ call[c].temp # "none" /\ Parent[call[c].path] = d}

Least(a, b) == IF a < b THEN a ELSE b

(* List: one level, cut off at the cap.  So many of the entries are temporary. *)
Listings(d) ==
  LET all == In(d) \cup TempsIn(d) IN
  {L \in SUBSET all : Cardinality(L) = Least(Cardinality(all), MaxListEntries)}

(* A directory's distance from the root. *)
Depth(d) == IF d = Root THEN 0 ELSE Cardinality(Ancestors[d]) + 1

(* Faulty: one level less. *)
DescendsNot(d) == Depth(d) < MaxScanDepth

Descends(d) == Depth(d) <= MaxScanDepth

ScanBegins ==
  /\ ~Scanning
  /\ scan' = [stack |-> {Root}, visited |-> 0, found |-> {}]
  /\ there' = {f \in Files : Present(f)}

(* A listing's entries: directories go onto the stack, saves are kept, until so
   many entries have been seen. *)
Visit(L) ==
  LET subdirs == {e \in L : e \in Dirs}
      saves == L \cap SaveLike
      room == MaxScanEntries - scan.visited
      files == L \ subdirs
  IN
  IF Cardinality(L) <= room
  THEN {[visited |-> scan.visited + Cardinality(L), subdirs |-> subdirs, saves |-> saves]}
  ELSE {[visited |-> MaxScanEntries + 1, subdirs |-> {}, saves |-> K \cap saves] :
          K \in {K \in SUBSET files : Cardinality(subdirs \cup K) <= room}}

(* A directory that has gone meanwhile is passed over. *)
ScanLists ==
  /\ Scanning
  /\ \E d \in scan.stack :
     \E L \in IF d = Root \/ Present(d) THEN Listings(d) ELSE {{}} :
     \E v \in Visit(L) :
       scan' = [stack |-> IF v.visited > MaxScanEntries THEN {}
                          ELSE (scan.stack \ {d}) \cup {e \in v.subdirs : Descends(e)},
                visited |-> v.visited,
                found |-> scan.found \cup v.saves]
  /\ there' = {f \in there : Present(f)}

(* The page is shown, or the node was skipped for an error. *)
ScanEnds ==
  /\ Scanning
  /\ scan' = None /\ there' = {}

ScanDies == scan' = None /\ there' = {}

ScanInit == scan = None /\ there = {}

ScanTypeOK ==
  /\ scan \in {None} \cup
       [stack: SUBSET (Dirs \cup {Root}), visited: 0..(MaxScanEntries + 1),
        found: SUBSET SaveLike]
  /\ there \subseteq Files

(* A walk that was not cut off has found every save that was in place from its
   beginning on and is not too deep: that the engine makes directories and
   replaces files meanwhile hides none of them. *)
ScanFindsSettled ==
  Scanning /\ scan.stack = {} /\ scan.visited <= MaxScanEntries =>
    \A f \in there \cap SaveLike :
      f \in scan.found \/ Cardinality(Ancestors[f]) > MaxScanDepth

(* A save that the walk has not found lies below a directory it is to list. *)
ScanInv ==
  Scanning /\ scan.visited <= MaxScanEntries =>
    \A f \in there \cap SaveLike :
      \/ f \in scan.found \/ Cardinality(Ancestors[f]) > MaxScanDepth
      \/ \E d \in scan.stack : d \in Ancestors[f] \cup {Root}
=============================================================================
