------------------------------- MODULE Pages -------------------------------
(***************************************************************************)
(* list and search (tools.py): the results of a call, a page at a time.    *)
(*                                                                         *)
(* nare keeps nothing between two pages.  A page ends in a cursor, which   *)
(* names the last record it holds, and the next call walks the tree again  *)
(* and takes up after that record.  Meanwhile the run's own calls and its  *)
(* background commands change the tree.                                    *)
(*                                                                         *)
(* A call is "list", of one directory, or a search below it, "glob" for    *)
(* files and "lines" for the lines of files that match a pattern.  Names   *)
(* are numbers, in the order of the names.                                 *)
(***************************************************************************)
EXTENDS Integers, Sequences, FiniteSets, SequencesExt

CONSTANTS
  None,
  Paths,          (* where files can be, as the names from the top down    *)
  SkippedDirs,    (* the names of directories a search does not enter      *)
  Matched,        (* the paths that the glob of a search matches           *)
  Lines,          (* the numbers of the lines that can match a pattern     *)
  MAX_PAGE,       (* the largest page                                      *)
  (* The bound of an exploration.                                          *)
  MaxChanges      (* changes of the tree                                   *)

(* A regular file, with the lines that match, or a symbolic link.          *)
Entry == [kind : {"file"}, lines : SUBSET Lines] \cup [kind : {"symlink"}, lines : {{}}]

(* An entry or a file, of number 0, or a line of a file.                   *)
Record == [parts : Seq(Nat) \ {<<>>}, number : Nat]

ASSUME PagesAssumption ==
  /\ Paths \subseteq Seq(Nat) \ {<<>>} /\ Matched \subseteq Paths /\ Lines \subseteq Nat \ {0}
  /\ IsFiniteSet(Paths) /\ IsFiniteSet(Lines)
  /\ None \notin Seq(Nat) /\ None \notin Record /\ None \notin Entry
  /\ MAX_PAGE \in Nat \ {0} /\ MaxChanges \in Nat

VARIABLES
  tree,       (* what there is at each path                                *)
  call,       (* the call whose pages are asked for                        *)
  cursor,     (* the record the next page takes up after                   *)
  walk,       (* "new", "going" or "over"                                  *)
  shown,      (* the records of the pages so far                           *)
  stayed,     (* those there from the first page on                        *)
  changes

vars == <<tree, call, cursor, walk, shown, stayed, changes>>

-----------------------------------------------------------------------------
(***************************************************************************)
(* The order of a walk.                                                    *)
(***************************************************************************)
(* Tuples are ordered by their first difference, a prefix first.           *)
Less(p, q) ==
  \E n \in 0 .. Len(p) :
    /\ n < Len(q) /\ \A k \in 1 .. n : p[k] = q[k]
    /\ n < Len(p) => p[n + 1] < q[n + 1]

Precedes(r, s) ==
  \/ Less(r.parts, s.parts)
  \/ r.parts = s.parts /\ r.number < s.number

-----------------------------------------------------------------------------
(***************************************************************************)
(* What a call returns after a cursor.                                     *)
(***************************************************************************)
There == {path \in Paths : tree[path] # None}

(* Faulty: passes by the directory that the cursor's file is in.           *)
DoneBelow(parts, after) == after # None /\ Less(parts, after)

(* This file, or every file below this directory, is done.                 *)
Done(parts, after) == after # None /\ Less(parts, after) /\ ~ IsPrefix(parts, after)

Walked(after) ==
  {path \in There :
    /\ tree[path].kind = "file"
    /\ \A i \in DOMAIN path :
         ~ Done(SubSeq(path, 1, i), after) /\ (i < Len(path) => path[i] \notin SkippedDirs)
    /\ after = None \/ ~ Less(path, after)}

(* The matching lines of a file after a line.                              *)
LinesOf(path, after) == {n \in tree[path].lines : n > after}

(* A search of a file takes it as the one file of its directory: `Paths'   *)
(* may hold one name only.  (Not so its end: the file gone, or a directory *)
(* since, the next page is an error or another search.)                    *)
Searched(from) ==
  LET after == IF from = None THEN None ELSE from.parts
      files == Walked(after) \cap Matched
  IN  IF call = "glob"
      THEN {[parts |-> path, number |-> 0] : path \in files \ {after}}
      ELSE UNION {{[parts |-> path, number |-> n] :
                     n \in LinesOf(path, IF path = after THEN from.number ELSE 0)} :
                   path \in files}

Names == {Head(path) : path \in There}

Listed(from) ==
  {[parts |-> <<name>>, number |-> 0] :
     name \in {n \in Names : from # None => n > Head(from.parts)}}

Results(from) == IF call = "list" THEN Listed(from) ELSE Searched(from)

-----------------------------------------------------------------------------
(***************************************************************************)
(* A page.  It holds at most limit records, and as many as have room: one  *)
(* at least, so a page goes forward.                                       *)
(***************************************************************************)
Paginate(records, limit) ==
  LET size == IF limit < Cardinality(records) THEN limit ELSE Cardinality(records)
  IN  CHOOSE page \in [1 .. size -> records] :
        /\ \A i, j \in 1 .. size : i < j => Precedes(page[i], page[j])
        /\ \A r \in records : \/ \E i \in 1 .. size : page[i] = r
                             \/ \A i \in 1 .. size : Precedes(page[i], r)

NextPage(limit) ==
  /\ walk # "over"
  /\ LET records == Results(cursor)
         taken == Paginate(records, limit)
         more == Len(taken) < Cardinality(records)
     IN  /\ shown' = shown \o taken
         /\ cursor' = IF more THEN Last(taken) ELSE None
         /\ walk' = IF more THEN "going" ELSE "over"
         /\ stayed' = IF walk = "new" THEN records ELSE stayed
  /\ UNCHANGED <<tree, call, changes>>

(***************************************************************************)
(* The tree changes between two pages.                                     *)
(***************************************************************************)
(* A name is a file's or a directory's, not both.                          *)
IsTree(paths) == \A p, q \in paths : ~ IsStrictPrefix(p, q)

Changes(path, entry) ==
  /\ walk = "going" /\ changes < MaxChanges
  /\ entry # tree[path]
  /\ tree' = [tree EXCEPT ![path] = entry]
  /\ IsTree({p \in Paths : tree'[p] # None})
  /\ changes' = changes + 1
  /\ UNCHANGED <<call, cursor, walk, shown>>
  /\ stayed' = stayed \cap Results(None)'

-----------------------------------------------------------------------------
Init ==
  /\ tree \in [Paths -> Entry \cup {None}]
  /\ IsTree({path \in Paths : tree[path] # None})
  /\ call \in {"list", "glob", "lines"}
  /\ cursor = None /\ walk = "new" /\ shown = <<>> /\ stayed = {} /\ changes = 0

Next ==
  \/ \E limit \in 1 .. MAX_PAGE : NextPage(limit)
  \/ \E path \in Paths, entry \in Entry \cup {None} : Changes(path, entry)

Spec == Init /\ [][Next]_vars

-----------------------------------------------------------------------------
(***************************************************************************)
(* Properties.                                                             *)
(***************************************************************************)

(* However the tree changes between the pages, what was there from the     *)
(* first page on is on exactly one of them by the time the walk has passed *)
(* it, and the pages together are in order, so nothing is on two.          *)
EachOnce ==
  /\ \A i, j \in DOMAIN shown : i < j => Precedes(shown[i], shown[j])
  /\ \A hit \in stayed :
       walk = "over" \/ ~ Precedes(cursor, hit) => \E i \in DOMAIN shown : shown[i] = hit
=============================================================================
