------------------------------- MODULE Review -------------------------------
(***************************************************************************)
(* What a review is given to read (resolve_review_target of                *)
(* src/quorum/orchestration.py): one task that asks git and gh step by     *)
(* step through Commands, while the user works on the tree and others push *)
(* to the change under review.                                             *)
(*                                                                         *)
(* A diff is its size, a revision is a number: tip is the head of the      *)
(* reviewed change, head what the working directory has checked out, 0 a   *)
(* revision that is no part of the change.                                 *)
(***************************************************************************)
EXTENDS Commands

CONSTANTS
  Unknown,      \* no answer
  MaxEdits,     \* bound: changes of the working tree
  MaxPushes,    \* bound: moves of the head of the reviewed change
  MaxCheckouts, \* bound: checkouts of another revision
  MaxCancels    \* bound: requests to cancel

Size == {"empty", "small", "big"}
Revision == 0 .. MaxPushes + 1
World == [diff : Size, new : BOOLEAN, tip : Revision, head : Revision]

ASSUME ReviewAssumption ==
  /\ Task = {"target"}
  /\ {MaxEdits, MaxPushes, MaxCheckouts, MaxCancels} \subseteq Nat
  /\ Unknown \notin Nat \cup BOOLEAN \cup World

VARIABLES
  kind,     \* the kind of target
  world,    \* the diff that the target selects, whether there are new files, tip and head
  moves,    \* how often the world moved, and cancellations
  command,  \* the command the task is at
  ref,      \* candidates tried for the default branch
  said,     \* the world as the running command saw it when it exited
  diff, new, end, read,  \* what the answers to diff, status and the two rev-parse were
  result    \* what the caller gets

reviewVars == <<runVars, kind, world, moves, command, ref, said, diff, new, end, read, result>>

Kind == {"all", "pr", "working", "branch", "range"}
Local == {"working", "branch"}

Command ==
  {"isrepo", "view", "diff", "headoid", "head", "where", "meta", "names",
   "status", "stat", "symref", "ref", "mergebase"}

\* The answers that a review is told, beside the text of the diff.
Notice == {"none", "diverges", "unverified"}
Result ==
  {[shape |-> s] : s \in {"none", "error", "whole", "nothing"}}
    \cup [shape : {"text"}, notice : Notice, marker : BOOLEAN, full : BOOLEAN,
          at : {"cwd", "revision", "source"}]
None == [shape |-> "none"]
Error == [shape |-> "error"]
Whole == [shape |-> "whole"]
NoChanges == [shape |-> "nothing"]

ReviewTypeOK ==
  /\ RunTypeOK
  /\ kind \in Kind
  /\ world \in World
  /\ moves \in [edits : 0 .. MaxEdits, pushes : 0 .. MaxPushes,
                checkouts : 0 .. MaxCheckouts, cancels : 0 .. MaxCancels]
  /\ command \in Command
  /\ ref \in 0 .. 4
  /\ said \in World \cup {Unknown}
  /\ diff \in World \cup {Unknown}
  /\ new \in BOOLEAN \cup {Unknown}
  /\ end \in Revision \cup {Unknown}
  /\ read \in Revision \cup {Unknown}
  /\ result \in Result

T == "target"

ReviewInit ==
  /\ RunInit
  /\ kind \in Kind
  /\ world \in [diff : Size, new : BOOLEAN, tip : {1}, head : {0, 1}]
  /\ moves = [edits |-> 0, pushes |-> 0, checkouts |-> 0, cancels |-> 0]
  /\ command = "isrepo"
  /\ ref = 0
  /\ said = Unknown
  /\ diff = Unknown
  /\ new = Unknown
  /\ end = Unknown
  /\ read = Unknown
  /\ result = None

-----------------------------------------------------------------------------

\* Mutant of Aligned: two blank answers are equal.
AlignedBlank(r) == r = end

\* HEAD is compared with the head of the change; not knowing either is no
\* match.
Aligned(r) == r # Unknown /\ end # Unknown /\ r = end

\* Over the cap, the text is a summary, which takes commands of its own.
Truncates ==
  IF diff.diff # "big" THEN "text" ELSE IF kind = "pr" THEN "meta" ELSE "stat"

\* Mutant of AfterDiff: a failure reads as an empty answer.
AfterDiffBlank(ok) ==
  IF kind \in Local /\ ok THEN "status"
  ELSE IF ~ok \/ said.diff = "empty" THEN "nothing" ELSE "headoid"

\* Whether there is a diff decides what is asked next, and its failure is an
\* error.
AfterDiff(ok) ==
  IF ~ok THEN "error"
  ELSE IF kind \in Local THEN "status"
  ELSE IF said.diff = "empty" THEN "nothing" ELSE "headoid"

\* A listing that fails names no file.
AfterStatus(named) ==
  IF diff.diff # "empty" THEN Truncates ELSE IF named THEN "text" ELSE "nothing"

\* The shape of the target decides the first command; gh may be missing.
Opens ==
  CASE kind = "all" -> {"whole"}
    [] kind = "pr" -> {"view", "error"}
    [] kind = "branch" -> {"symref"}
    [] OTHER -> {"diff"}

\* What follows command c: another command, or the end.
Follows(c, ok) ==
  CASE c = "isrepo" -> IF ok THEN Opens ELSE {"error"}
    [] c = "symref" -> {IF ok THEN "mergebase" ELSE "ref"}
    [] c = "ref" -> {IF ok THEN "mergebase" ELSE IF ref < 4 THEN "ref" ELSE "error"}
    [] c \in {"view", "mergebase"} -> {IF ok THEN "diff" ELSE "error"}
    [] c = "diff" -> {AfterDiff(ok)}
    [] c = "status" -> {AfterStatus(ok /\ said.new)}
    [] c = "headoid" -> {"head"}
    [] c = "head" -> {IF ok /\ Aligned(said.head) THEN Truncates ELSE "where"}
    [] c = "where" -> {Truncates}
    [] c = "meta" -> {"names"}
    [] OTHER -> {"text"}

\* The notice about the tree that the seats can open.
Told ==
  IF kind \in Local \/ Aligned(read) THEN "none"
  ELSE IF end = Unknown THEN "unverified" ELSE "diverges"

\* Where a summary sends the seats for the files.
Points ==
  IF kind = "pr" THEN "source"
  ELSE IF Told # "none" /\ end # Unknown THEN "revision" ELSE "cwd"

Ending(e) ==
  IF e = "text"
  THEN [shape |-> "text", notice |-> Told, marker |-> new = TRUE,
        full |-> diff.diff # "big", at |-> Points]
  ELSE [shape |-> e]

-----------------------------------------------------------------------------

script == <<command, ref, said, diff, new, end, read, result>>

\* What the task keeps of the answer.
Learns(ok) ==
  /\ diff' = IF command = "diff" /\ ok THEN said ELSE diff
  /\ new' = IF command = "status" /\ ok THEN said.new ELSE new
  /\ end' = IF command = "headoid" /\ ok THEN said.tip ELSE end
  /\ read' = IF command = "head" /\ ok THEN said.head ELSE read
  /\ said' = Unknown

To(c) == IF c \in Command THEN "spawning" ELSE "returned"

Turns(c, ok) ==
  /\ Learns(ok)
  /\ IF c \in Command
     THEN /\ command' = c
          /\ ref' = IF c = "ref" THEN ref + 1 ELSE ref
          /\ UNCHANGED result
     ELSE /\ result' = Ending(c)'
          /\ UNCHANGED <<command, ref>>

Starts ==
  /\ Begin(T, "spawning")
  /\ UNCHANGED <<kind, world, moves, script>>

Goes ==
  /\ UNCHANGED <<kind, world, moves>>
  /\ \/ \E c \in Follows(command, child[T] = "ok") :
          Answered(T, To(c)) /\ Turns(c, child[T] = "ok")
     \/ \E c \in Follows(command, FALSE) :
          /\ SpawnFails(T, To(c)) \/ ReapOver(T, To(c))
          /\ IF step'[T] = "cancelled" THEN UNCHANGED script ELSE Turns(c, FALSE)

Inner ==
  /\ \/ BeginCut(T) \/ Spawned(T) \/ SpawnCut(T) \/ TimesOut(T) \/ Cut(T)
     \/ Reaped(T) \/ ReapGivesUp(T) \/ ReapCut(T)
  /\ UNCHANGED <<kind, world, moves, script>>

\* A command answers from the world as it is when the process exits.
Replies ==
  /\ \E c \in {"ok", "bad"} :
       Exits(T, c) /\ said' = IF c = "ok" THEN world ELSE Unknown
  /\ UNCHANGED <<kind, world, moves, command, ref, diff, new, end, read, result>>

Dying == Dies(T) /\ UNCHANGED <<kind, world, moves, script>>

CancelReview ==
  /\ step[T] \notin Over
  /\ moves.cancels < MaxCancels
  /\ moves' = [moves EXCEPT !.cancels = @ + 1]
  /\ AskToCancel({T})
  /\ UNCHANGED <<step, child, reaper, caught, kind, world, script>>

\* The user goes on working on the tree under review.
Edit ==
  /\ kind \in Local /\ step[T] \notin Over
  /\ moves.edits < MaxEdits
  /\ moves' = [moves EXCEPT !.edits = @ + 1]
  /\ \E d \in Size, n \in BOOLEAN : world' = [world EXCEPT !.diff = d, !.new = n]
  /\ UNCHANGED <<runVars, kind, script>>

\* The reviewed change gets another head: by a push, by a commit on it where
\* it is checked out, or by a checkout where the range ends at HEAD.
Push ==
  /\ kind \in {"pr", "range"} /\ step[T] \notin Over
  /\ moves.pushes < MaxPushes
  /\ moves' = [moves EXCEPT !.pushes = @ + 1]
  /\ \E d \in Size, h \in {world.head, world.tip + 1} :
       /\ h # world.head => kind = "range" /\ world.head = world.tip
       /\ world' = [world EXCEPT !.diff = d, !.tip = @ + 1, !.head = h]
  /\ UNCHANGED <<runVars, kind, script>>

Checkout ==
  /\ kind \in {"pr", "range"} /\ step[T] \notin Over
  /\ moves.checkouts < MaxCheckouts
  /\ moves' = [moves EXCEPT !.checkouts = @ + 1]
  /\ \E h \in 0 .. world.tip : world' = [world EXCEPT !.head = h]
  /\ UNCHANGED <<runVars, kind, script>>

\* The review has its text, or none.
Rests ==
  /\ step[T] \in Over /\ child[T] # "killed"
  /\ UNCHANGED reviewVars

ReviewNext ==
  \/ Starts \/ Goes \/ Inner \/ Replies \/ Dying
  \/ CancelReview \/ Edit \/ Push \/ Checkout \/ Rests

ReviewSpec == ReviewInit /\ [][ReviewNext]_reviewVars

-----------------------------------------------------------------------------

\* "No changes" is never said for a diff that failed, timed out or was cut
\* short, nor after a listing that was answered and named a new file
\* (orchestration.py:704-705, 743-764).  It is said after a listing that
\* itself failed or timed out (628-630): new is Unknown then.
NoFalseEmpty ==
  result = NoChanges =>
    /\ diff # Unknown /\ diff.diff = "empty"
    /\ kind \in Local => new # TRUE

\* A seat that is told nothing about the tree finds the diffed change in it,
\* and no summary sends it to a tree that is known to hold another
\* (orchestration.py:600-601, 645-649).  Not so after a push that comes between
\* the diff and the question for the head.
SilenceProven ==
  result.shape = "text" =>
    /\ kind \notin Local /\ result.notice = "none" => read = diff.tip
    /\ ~result.full /\ result.at = "cwd" => result.notice # "diverges"

\* That is so unless the change moved after its diff was made, whatever the
\* user checks out meanwhile.
SilenceHolds == diff # Unknown /\ world.tip = diff.tip => SilenceProven

\* "Local working-tree targets always surface untracked files"
\* (orchestration.py:705-706).  Not so where the listing itself fails: with an
\* empty diff that reads as "no changes".
UntrackedSurfaced ==
  /\ kind \in Local /\ world.new /\ moves.edits = 0
  /\ result.shape \in {"nothing", "text"}
  => result.shape = "text" /\ result.marker

\* Where the listing is answered, they are.
ListedSurfaced == new # Unknown => UntrackedSurfaced
=============================================================================
