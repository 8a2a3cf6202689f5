--------------------------- MODULE LineAuthority ---------------------------
(***************************************************************************)
(* What the authority store promises about one experiment line: a linear,  *)
(* versioned history.  Every change is one indivisible step taken from the *)
(* current version, a candidate enters the history at most once, and a     *)
(* checkpoint freezes the head that a candidate integration just produced. *)
(* ExperimentLine, where each of these steps is a long command that other  *)
(* commands, expired leases and crashes may interrupt, implements it.      *)
(***************************************************************************)
EXTENDS Naturals, Sequences

CONSTANTS Requests,     \* requests that may be integrated
          Names,        \* checkpoint names other than H0
          Commits       \* ids of Git commits

VARIABLES line,         \* [head, gen, ckpt]: the row of experiment_lines
          log,          \* committed CANDIDATE and ROLLBACK rows, in order
          ckpts         \* checkpoint name -> frozen subject commit, 0 if none

Base == 1               \* the commit of H0
AllNames == Names \cup {"H0"}

Init ==
  /\ line = [head |-> Base, gen |-> 0, ckpt |-> "H0"]
  /\ log = << >>
  /\ ckpts = [n \in AllNames |-> IF n = "H0" THEN Base ELSE 0]

\* A commit that the history does not hold yet.
Fresh(c) ==
  /\ c \in Commits \ {Base}
  /\ \A i \in DOMAIN log : log[i].result # c

Record(kind, who, c) ==
  [kind |-> kind, who |-> who, expHead |-> line.head, expGen |-> line.gen,
   result |-> c]

Integrate(r, c) ==
  /\ Fresh(c)
  /\ \A i \in DOMAIN log : ~ (log[i].kind = "CANDIDATE" /\ log[i].who = r)
  /\ log' = Append(log, Record("CANDIDATE", r, c))
  /\ line' = [line EXCEPT !.head = c, !.gen = @ + 1]
  /\ UNCHANGED ckpts

Rollback(n, c) ==
  /\ Fresh(c)
  /\ ckpts[n] # 0
  /\ log' = Append(log, Record("ROLLBACK", n, c))
  /\ line' = [head |-> c, gen |-> line.gen + 1, ckpt |-> n]
  /\ UNCHANGED ckpts

Checkpoint(n) ==
  /\ ckpts[n] = 0
  /\ log # << >>
  /\ log[Len(log)].kind = "CANDIDATE"
  /\ ckpts' = [ckpts EXCEPT ![n] = line.head]
  /\ line' = [line EXCEPT !.gen = @ + 1, !.ckpt = n]
  /\ UNCHANGED log

Next ==
  \/ \E r \in Requests, c \in Commits : Integrate(r, c)
  \/ \E n \in AllNames, c \in Commits : Rollback(n, c)
  \/ \E n \in Names : Checkpoint(n)

Spec == Init /\ [][Next]_<<line, log, ckpts>>
=============================================================================
