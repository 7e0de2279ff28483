----------------------------- MODULE WriteBehind -----------------------------
(***************************************************************************)
(* What the persistence of vault/internal/tokens/store.go promises of the  *)
(* two tables and their files, without a timer, a wait group or a call of  *)
(* Flush: while the daemon runs, copies of both tables are made, each copy *)
(* of one moment; a copy replaces the roles file and then the tokens file, *)
(* each as a whole or not at all; and what a daemon starts with is what    *)
(* the files hold.  Several copies may be on their way at once.            *)
(*                                                                         *)
(* Module Persistence implements this one.                                 *)
(***************************************************************************)
EXTENDS Integers

CONSTANT Nil     \* no file

VARIABLES
  up,            \* whether the daemon runs
  mem,           \* the content of the two tables: numbers of changes
  clock,         \* number of changes made so far
  dirty,         \* a change has not been copied yet
  copies,        \* the copies on their way, and the file that is next for each
  rolesFile, tokensFile

files == <<rolesFile, tokensFile>>
vars == <<up, mem, clock, dirty, copies, files>>

Empty == [at |-> 0, basis |-> 0]

Init ==
  /\ up = FALSE
  /\ mem = [roles |-> 0, tokens |-> Empty]
  /\ clock = 0
  /\ dirty = FALSE
  /\ copies = {}
  /\ rolesFile \in {Nil, 0}
  /\ tokensFile \in {Nil, Empty}

\* A change to one table; a token remembers which roles it was issued beside.
Change ==
  /\ up
  /\ clock' = clock + 1
  /\ mem' \in {[mem EXCEPT !.roles = clock'],
               [mem EXCEPT !.tokens = [at |-> clock', basis |-> mem.roles]]}
  /\ dirty' = TRUE
  /\ UNCHANGED <<up, copies, files>>

CopyOf(tables, next) == [roles |-> tables.roles, tokens |-> tables.tokens, next |-> next]

\* Both tables at one moment.
Copy ==
  /\ up
  /\ copies' = copies \cup {CopyOf(mem, "roles")}
  /\ dirty' = FALSE
  /\ UNCHANGED <<up, mem, clock, files>>

\* The copy goes on to the tokens file, whether or not the roles could be written.
\* Of two equal copies one may stay behind.
PutRoles(c) ==
  /\ c.next = "roles"
  /\ rolesFile' \in {rolesFile, c.roles}
  /\ copies' \ {c} = (copies \ {c}) \cup {CopyOf(c, "tokens")}
  /\ UNCHANGED <<up, mem, clock, dirty, tokensFile>>

PutTokens(c) ==
  /\ c.next = "tokens"
  /\ tokensFile' \in {tokensFile, c.tokens}
  /\ copies' \cup {c} = copies
  /\ UNCHANGED <<up, mem, clock, dirty, rolesFile>>

\* The files are what a crash, or an exit, leaves.
Stop ==
  /\ up
  /\ up' = FALSE
  /\ copies' = {}
  /\ UNCHANGED <<mem, clock, dirty, files>>

OrInitial(file, initial) == IF file = Nil THEN initial ELSE file

\* A missing file is to be written as soon as the daemon runs.
Start ==
  /\ ~up
  /\ up' = TRUE
  /\ mem' = [roles |-> OrInitial(rolesFile, 0), tokens |-> OrInitial(tokensFile, Empty)]
  /\ dirty' = (rolesFile = Nil \/ tokensFile = Nil)
  /\ copies' = {}
  /\ UNCHANGED <<clock, files>>

Next ==
  \/ Change \/ Copy \/ Stop \/ Start
  \/ \E c \in copies : PutRoles(c) \/ PutTokens(c)

Spec == Init /\ [][Next]_vars
=============================================================================
