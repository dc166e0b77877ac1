--------------------------- MODULE DisposalStack ---------------------------
(***************************************************************************)
(* AsyncDisposableStack of src/src/async-disposable-stack.ts.  A stack is  *)
(* the sequence of the resources entered in it, or None once it has been   *)
(* disposed or moved from.  Disposal empties the stack before the first    *)
(* disposer runs, awaits one disposer at a time, last in first out, goes   *)
(* on past those that throw, and throws at the end what they threw.        *)
(***************************************************************************)
EXTENDS SequencesExt

CONSTANTS Stacks, Resources, None

VARIABLES
  stacks,     \* #disposers of each stack, oldest first
  unwinding,  \* the disposers still to run, next first
  running,    \* the resource whose disposer is awaited
  errors      \* what disposers threw, the outermost error last

stackVars == <<stacks, unwinding, running, errors>>

StackTypeOK ==
  /\ stacks \in [Stacks -> Seq(Resources) \cup {None}]
  /\ unwinding \in Seq(Resources)
  /\ running \in Resources \cup {None}
  /\ errors \in Seq(Resources)

StackInit ==
  /\ stacks = [s \in Stacks |-> None]
  /\ unwinding = <<>>
  /\ running = None
  /\ errors = <<>>

\* new AsyncDisposableStack(), and what is entered in it in the same turn.
Open(s, resources) ==
  /\ stacks[s] = None
  /\ stacks' = [stacks EXCEPT ![s] = resources]
  /\ UNCHANGED <<unwinding, running, errors>>

\* use(), adopt() and defer(), which throw on a disposed stack.
Enter(s, resources) ==
  /\ stacks[s] # None
  /\ stacks' = [stacks EXCEPT ![s] = @ \o resources]
  /\ UNCHANGED <<unwinding, running, errors>>

\* move(), to a new stack.
Move(from, to) ==
  /\ stacks[from] # None
  /\ stacks' = [stacks EXCEPT ![to] = stacks[from], ![from] = None]
  /\ UNCHANGED <<unwinding, running, errors>>

\* A bug: the disposers run in the order they were entered.
DisposeOldestFirst(s) ==
  /\ unwinding' = IF stacks[s] = None THEN unwinding ELSE stacks[s]
  /\ stacks' = [stacks EXCEPT ![s] = None]
  /\ UNCHANGED <<running, errors>>

\* disposeAsync(), which does nothing on a stack that is disposed already.
DisposeStack(s) ==
  /\ unwinding' = IF stacks[s] = None THEN unwinding ELSE Reverse(stacks[s])
  /\ stacks' = [stacks EXCEPT ![s] = None]
  /\ UNCHANGED <<running, errors>>

\* The loop calls the next disposer.
RunDisposer(r) ==
  /\ running = None
  /\ unwinding # <<>> /\ Head(unwinding) = r
  /\ running' = r
  /\ unwinding' = Tail(unwinding)
  /\ UNCHANGED <<stacks, errors>>

\* The disposer's promise settles; an error suppresses the one before it.
DisposerSettles(threw) ==
  /\ running # None
  /\ running' = None
  /\ errors' = IF threw THEN Append(errors, running) ELSE errors
  /\ UNCHANGED <<stacks, unwinding>>

Unwound == unwinding = <<>> /\ running = None
=============================================================================
