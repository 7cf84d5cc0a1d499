-------------------------------- MODULE Session --------------------------------
(***************************************************************************)
(* What a sync client may rely on, whatever becomes of the server: its     *)
(* requests are executed in the order of issue and at most once, what is   *)
(* delivered is the answer to the request issued last, computed by its     *)
(* execution, and an object created for one client is given to no other    *)
(* while the server process runs.  A request may as well never be          *)
(* executed, or executed and never answered.                               *)
(***************************************************************************)
EXTENDS Naturals

CONSTANTS
  Client,
  Answer,   \* what an execution can return: records with a kind and a value
  NoAnswer

VARIABLES
  issued,     \* how many requests each client has issued; they are numbered
  executed,   \* the last execution for each client
  delivered,  \* the last answer each client has been given
  given       \* the handles the server process has given out

vars == <<issued, executed, delivered, given>>

Nothing == [id |-> 0, answer |-> NoAnswer]

Init ==
  /\ issued = [c \in Client |-> 0]
  /\ executed = [c \in Client |-> Nothing]
  /\ delivered = [c \in Client |-> Nothing]
  /\ given = {}

Issue(c) ==
  /\ issued' = [issued EXCEPT ![c] = @ + 1]
  /\ UNCHANGED <<executed, delivered, given>>

\* The execution is that of a request issued since, with any answer.
Execute(c) ==
  LET e == executed'[c] IN
  /\ e \in [id : executed[c].id + 1 .. issued[c], answer : Answer]
  /\ executed' = [executed EXCEPT ![c] = e]
  /\ IF e.answer.kind = "handle"
       THEN e.answer.value \notin given /\ given' = given \cup {e.answer.value}
       ELSE UNCHANGED given
  /\ UNCHANGED <<issued, delivered>>

Deliver(c) ==
  /\ delivered[c].id < issued[c]
  /\ executed[c].id = issued[c]
  /\ executed[c].answer # NoAnswer
  /\ delivered' = [delivered EXCEPT ![c] = executed[c]]
  /\ UNCHANGED <<issued, executed, given>>

\* The server process ends, and with it the objects.
ServerEnds ==
  /\ given' = {}
  /\ UNCHANGED <<issued, executed, delivered>>

Next == (\E c \in Client : Issue(c) \/ Execute(c) \/ Deliver(c)) \/ ServerEnds

Spec == Init /\ [][Next]_vars
=============================================================================
