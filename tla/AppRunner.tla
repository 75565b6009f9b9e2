------------------------------ MODULE AppRunner ------------------------------
(***************************************************************************)
(* ApplicationRunnerWindow of panel.py (Alt+F2): the typed text, the       *)
(* completion suffix found by try_complete() among the executables of      *)
(* $PATH, and key_action(), which edits, completes, launches or closes.    *)
(* Strings are sequences of characters, a character its code point.       *)
(***************************************************************************)
EXTENDS Integers, Sequences, FiniteSets

CONSTANTS
  Chars,    \* the characters a key may type (code points)
  Bins,     \* self.bins: the names listed in the $PATH directories
  MaxData   \* bound on the length of the typed text

NUL == 0
BS == 8
LF == 10

ASSUME RunnerAssumption ==
  /\ Chars \subseteq Nat \ {NUL, BS, LF} /\ MaxData \in Nat
  /\ Bins \subseteq Seq(Nat) /\ IsFiniteSet(Bins)

VARIABLES
  runner_open,  \* the global app_runner is a window (not None)
  data,         \* self.data
  complete,     \* self.complete
  completed,    \* self.completed
  launched      \* the last launch_app(...) call: [cmd, terminal]

runnervars == <<runner_open, data, complete, completed, launched>>

(* No launch_app call yet: Enter launches only a non-empty command.        *)
NoLaunch == [cmd |-> << >>, terminal |-> FALSE]

(* Python's a < b on str: lexicographic on code points.  Either a is a    *)
(* proper prefix of b, or the first position where they differ holds a     *)
(* smaller code point in a.                                                *)
StrLess(a, b) ==
  \/ Len(a) < Len(b) /\ \A m \in 1..Len(a) : a[m] = b[m]
  \/ \E k \in 1..Len(a) :
       /\ k <= Len(b) /\ \A m \in 1..k - 1 : a[m] = b[m]
       /\ a[k] < b[k]

(* b.startswith(d).                                                        *)
StartsWith(b, d) == Len(d) <= Len(b) /\ \A m \in 1..Len(d) : b[m] = d[m]

(* The place of name b in sorted order: how many names sort before it.    *)
Rank(b) == Cardinality({c \in Bins : StrLess(c, b)})

(* sorted(self.bins): the k-th name is the one with k - 1 names before it. *)
SortedBins ==
  [k \in 1..Cardinality(Bins) |-> CHOOSE b \in Bins : Rank(b) = k - 1]

(* try_complete() for typed text d: the loop over sorted(self.bins) stops *)
(* at the first name that starts with d and takes the rest of it as the    *)
(* suffix; no such name, or empty text, clears it.                         *)
TryComplete(d) ==
  LET hits == {i \in DOMAIN SortedBins : StartsWith(SortedBins[i], d)}
      i    == CHOOSE i \in hits : \A j \in hits : i <= j
  IN  IF d = <<>> \/ hits = {} THEN [complete |-> <<>>, completed |-> FALSE]
      ELSE [complete |-> SubSeq(SortedBins[i], Len(d) + 1, Len(SortedBins[i])),
            completed |-> TRUE]

(* Key events as key_action reads them: action, keycode, and the key's     *)
(* byte: b'\x00', b'\b', b'\n' or a typed character.                       *)
KeyInputs ==
  [action : {"down", "up"}, keycode : {"Escape", "Del", "Other"},
   key : Chars \cup {NUL, BS, LF}, shift : BOOLEAN]

(* ApplicationRunnerWindow(): a fresh window with empty text.              *)
Open ==
  /\ ~runner_open
  /\ runner_open' = TRUE
  /\ data' = <<>> /\ complete' = <<>> /\ completed' = FALSE
  /\ UNCHANGED launched

(* close(): the global app_runner is reset to None.                        *)
Close == runner_open' = FALSE

(* Setting the text and recomputing the completion (try_complete()).      *)
SetData(d) ==
  /\ data' = d
  /\ complete' = TryComplete(d).complete
  /\ completed' = TryComplete(d).completed

(* Mutant: backspace that forgets to call try_complete().                  *)
backspace_stale ==
  \/ data # <<>> /\ data' = SubSeq(data, 1, Len(data) - 1) /\ UNCHANGED <<complete, completed>>
  \/ data = <<>> /\ UNCHANGED <<data, complete, completed>>

(* The b'\b' branch: drop the last character and recomplete, if any.      *)
backspace ==
  \/ data # <<>> /\ SetData(SubSeq(data, 1, Len(data) - 1))
  \/ data = <<>> /\ UNCHANGED <<data, complete, completed>>

(* key_action(msg), branch by branch in code order.                        *)
key_action(ev) ==
  \/ ev.action # "down" /\ UNCHANGED runnervars
  \/ /\ ev.action = "down" /\ ev.keycode = "Escape"
     /\ Close /\ UNCHANGED <<data, complete, completed, launched>>
  \/ /\ ev.action = "down" /\ ev.keycode = "Del"
     /\ complete' = <<>> /\ completed' = FALSE
     /\ UNCHANGED <<runner_open, data, launched>>
  \/ /\ ev.action = "down" /\ ev.keycode = "Other" /\ ev.key = NUL
     /\ UNCHANGED runnervars
  \/ /\ ev.action = "down" /\ ev.keycode = "Other" /\ ev.key = LF
     /\ launched' = IF data # <<>>
                    THEN [cmd |-> data \o complete, terminal |-> ev.shift]
                    ELSE launched
     /\ Close /\ UNCHANGED <<data, complete, completed>>
  \/ /\ ev.action = "down" /\ ev.keycode = "Other" /\ ev.key = BS
     /\ backspace
     /\ UNCHANGED <<runner_open, launched>>
  \/ /\ ev.action = "down" /\ ev.keycode = "Other" /\ ev.key \in Chars
     /\ Len(data) < MaxData
     /\ SetData(Append(data, ev.key))
     /\ UNCHANGED <<runner_open, launched>>

RunnerInit ==
  /\ runner_open = FALSE
  /\ data = <<>> /\ complete = <<>> /\ completed = FALSE
  /\ launched = NoLaunch

RunnerNext ==
  \/ Open
  \/ runner_open /\ \E ev \in KeyInputs : key_action(ev)

RunnerSpec == RunnerInit /\ [][RunnerNext]_runnervars

-----------------------------------------------------------------------------
(* Properties                                                              *)

(* The type of the runner's state.                                         *)
RunnerTypeOK ==
  /\ runner_open \in BOOLEAN /\ completed \in BOOLEAN
  /\ data \in Seq(Chars) /\ complete \in Seq(Nat)
  /\ launched \in [cmd : Seq(Nat), terminal : BOOLEAN]

(* Reference: the least name, in Python's string order, that d prefixes.  *)
Matches(d) == {b \in Bins : StartsWith(b, d)}
LeastMatch(d) == CHOOSE b \in Matches(d) : \A o \in Matches(d) : ~StrLess(o, b)

(* The spec's runner invariant: the completion shown is either cleared or *)
(* the suffix of the first executable, in sort order, the current text    *)
(* is a prefix of; it is cleared when the text is empty.  Whatever mix of *)
(* typing, backspaces, DEL and reopening came before.                      *)
CompletionCurrent ==
  runner_open =>
    /\ data = <<>> => ~completed /\ complete = <<>>
    /\ ~completed => complete = <<>>
    /\ completed =>
         /\ Matches(data) # {}
         /\ data \o complete = LeastMatch(data)

=============================================================================
