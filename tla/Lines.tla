------------------------------- MODULE Lines --------------------------------
(* The queues, stacks, deques and lists of the ADT library.                *)
EXTENDS Object

CONSTANT MAXSIZE

AQ == INSTANCE ArrayQueue WITH DEFAULT_QUEUE_CAPACITY <- DEFAULT_CAPACITY
LQ == INSTANCE LListQueue
AS == INSTANCE ArrayStack WITH DEFAULT_STACK_CAPACITY <- DEFAULT_CAPACITY
LS == INSTANCE LListStack
AD == INSTANCE ArrayDeque WITH DEFAULT_DEQUE_CAPACITY <- DEFAULT_CAPACITY
LD == INSTANCE LListDeque WITH SENTINEL <- NULL
AL == INSTANCE ArrayList WITH DEFAULT_ARRAYLIST_CAPACITY <- DEFAULT_CAPACITY

ASSUME LinesAssumption ==
  /\ AQ!CapacityAssumption /\ AQ!GarbageAssumption /\ LQ!NodesAssumption

CreateLine == \/ kind = "ArrayQueue" /\ AQ!Init
              \/ kind = "LListQueue" /\ LQ!Init
              \/ kind = "ArrayStack" /\ AS!Init
              \/ kind = "LListStack" /\ LS!Init
              \/ kind = "ArrayDeque" /\ AD!Init
              \/ kind = "LListDeque" /\ LD!Init
              \/ kind = "ArrayList" /\ AL!Init

CallLine == \/ kind = "ArrayQueue" /\ AQ!Next
            \/ kind = "LListQueue" /\ LQ!Next
            \/ kind = "ArrayStack" /\ AS!Next
            \/ kind = "LListStack" /\ LS!Next
            \/ kind = "ArrayDeque" /\ AD!Next
            \/ kind = "LListDeque" /\ LD!Next
            \/ kind = "ArrayList" /\ AL!Next

-----------------------------------------------------------------------------
(* The private data are well formed: indices are in range and agree with   *)
(* the counts, no slot in use is indeterminate, and linked lists hold      *)
(* every allocated node exactly once (none is lost, none is freed and      *)
(* still linked), backwards as forwards.                                   *)
LinesSound ==
  /\ kind = "ArrayQueue" => AQ!RingOK
  /\ kind = "LListQueue" => LQ!ListOK
  /\ kind = "ArrayStack" => AS!StackOK
  /\ kind = "LListStack" => LS!ListOK
  /\ kind = "ArrayDeque" => AD!DequeOK
  /\ kind = "LListDeque" => LD!ListOK
  /\ kind = "ArrayList" => AL!ListOK

\* What a call returns, keeps and frees is as the sequence of elements says.
StepIsLine ==
  /\ kind = "ArrayQueue" => AQ!StepIsLine
  /\ kind = "LListQueue" => LQ!StepIsLine
  /\ kind = "ArrayStack" => AS!StepIsLine
  /\ kind = "LListStack" => LS!StepIsLine
  /\ kind = "ArrayDeque" => AD!StepIsLine
  /\ kind = "LListDeque" => LD!StepIsLine
  /\ kind = "ArrayList" => AL!StepIsLine
=============================================================================
