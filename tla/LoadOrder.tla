------------------------------- MODULE LoadOrder -------------------------------
(***************************************************************************)
(* The load order: the entries OrderService shows, the file it writes, and *)
(* its undo history. The file lists the enabled folders only; what is      *)
(* disabled lives in memory. A commit writes a temporary file and renames  *)
(* it, so the file is the old one or the new one. Folders are numbered in  *)
(* the order of a scan; a missing file reads as an empty one.              *)
(***************************************************************************)
EXTENDS Integers, Sequences, FiniteSets

CONSTANTS
  Folders,
  HistoryLimit,   \* OrderService::HISTORY_LIMIT
  Unreadable,     \* whether a read of the file may fail
  MaxCommands,       \* bound: what the user and other programs do
  MaxFaults       \* bound: writes that fail, and ends of the program

ASSUME OrderBounds ==
  /\ Folders \subseteq Nat /\ IsFiniteSet(Folders) /\ HistoryLimit \in Nat \ {0}
  /\ Unreadable \in BOOLEAN /\ MaxCommands \in Nat /\ MaxFaults \in Nat

VARIABLES
  mods,       \* the mod folders on disk
  file,       \* the order file
  entries,    \* OrderService::_entries
  installed,  \* OrderSnapshot::installed, what the last scan found
  undo,       \* OrderService::_undo
  foreign,    \* whether another program wrote the file since it was last read
  commands, faults

orderVars == <<mods, file, entries, installed, undo, foreign>>

Entry(f, on)   == [folder |-> f, enabled |-> on]
Orders         == Seq([folder : Folders, enabled : BOOLEAN])
Listed(s)      == {s[i].folder : i \in DOMAIN s}
(* A set of numbers from the least to the greatest, and a sequence at some  *)
(* of its places.                                                          *)
Scanned(S)     == [k \in 1..Cardinality(S) |-> CHOOSE n \in S : Cardinality({m \in S : m <= n}) = k]
AtPlaces(s, S) == [k \in 1..Cardinality(S) |-> s[Scanned(S)[k]]]
Enabled(s)     == LET on == AtPlaces(s, {i \in DOMAIN s : s[i].enabled}) IN [i \in DOMAIN on |-> on[i].folder]
Off(fs)        == [i \in DOMAIN fs |-> Entry(fs[i], FALSE)]
Lists(s)       == \A i, j \in DOMAIN s : s[i] = s[j] => i = j

Command   == commands < MaxCommands /\ commands' = commands + 1
Fault     == faults < MaxFaults /\ faults' = faults + 1
Works(ok) == IF ok THEN UNCHANGED faults ELSE Fault

-----------------------------------------------------------------------------
(* Installed folders that are not listed come last, disabled.              *)
WithInstalled(s, found) == s \o Off(Scanned(found \ Listed(s)))

Reads(stored) == {stored} \cup (IF Unreadable THEN {<<>>} ELSE {})

Refreshed(read, previous, found) ==
  LET listed == [i \in DOMAIN read |-> Entry(read[i], TRUE)]
      off == AtPlaces(previous, {i \in DOMAIN previous :
                                   ~previous[i].enabled /\ previous[i].folder \notin Listed(listed)})
  IN WithInstalled(listed \o off, found)

Refresh(found) ==
  \E read \in Reads(file) :
    /\ entries' = Refreshed(read, entries, found)
    /\ installed' = found /\ foreign' = FALSE
    /\ undo' = IF Enabled(entries') # Enabled(entries) THEN <<>> ELSE undo

(* Write: the enabled folders go to a file beside it, which takes its name; *)
(* when either fails the order file is what it was.                         *)
WriteFile(new, ok) == file' = IF ok THEN Enabled(new) ELSE file

(* Broken: the entries are taken before they are written. *)
Commit_First(new, history, ok) ==
  /\ WriteFile(new, ok)
  /\ entries' = new /\ undo' = history /\ foreign' = (foreign /\ ~ok)

Commit(new, history, ok) ==
  /\ WriteFile(new, ok)
  /\ IF ok THEN entries' = new /\ undo' = history /\ foreign' = FALSE
     ELSE UNCHANGED <<entries, undo, foreign>>

Remembered == Append(IF Len(undo) = HistoryLimit THEN Tail(undo) ELSE undo, entries)

(* SetEnabled takes the first entry of the folder. *)
Toggled(f) ==
  [i \in DOMAIN entries |->
     IF entries[i].folder = f /\ \A j \in 1..i - 1 : entries[j].folder # f
     THEN Entry(f, ~entries[i].enabled) ELSE entries[i]]

SetEnabled(f, ok) == f \in Listed(entries) /\ Commit(Toggled(f), Remembered, ok)

Moved(from, to) ==
  LET rest == SubSeq(entries, 1, from - 1) \o SubSeq(entries, from + 1, Len(entries))
  IN SubSeq(rest, 1, to - 1) \o <<entries[from]>> \o SubSeq(rest, to, Len(rest))

Move(from, to, ok) == from # to /\ Commit(Moved(from, to), Remembered, ok)

Undo(ok) ==
  /\ undo # <<>>
  /\ Commit(WithInstalled(undo[Len(undo)], installed), SubSeq(undo, 1, Len(undo) - 1), ok)

Apply(order, ok) == Commit(WithInstalled(order, installed), <<>>, ok)

Edits(ok) ==
  \/ \E f \in Folders : SetEnabled(f, ok)
  \/ \E i, j \in DOMAIN entries : Move(i, j, ok)
  \/ Undo(ok)

(* The file is written by another program. *)
WrittenOutside ==
  /\ file' \in {s \in UNION {[1..n -> Folders] : n \in 0..Cardinality(Folders)} : Lists(s)}
  /\ file' # file /\ foreign' = TRUE
  /\ UNCHANGED <<mods, entries, installed, undo>>

-----------------------------------------------------------------------------
OrderTypeOK ==
  /\ mods \subseteq Folders /\ installed \subseteq Folders
  /\ file \in Seq(Folders) /\ entries \in Orders
  /\ undo \in Seq(Orders) /\ Len(undo) <= HistoryLimit
  /\ foreign \in BOOLEAN /\ commands \in 0..MaxCommands /\ faults \in 0..MaxFaults

Without(s, f) == SelectSeq(s, LAMBDA g : g # f)

(* The same order but for one folder that moved, came or went.             *)
OneChange(s, t) == s = t \/ \E f \in Folders : Without(s, f) = Without(t, f)
===============================================================================
