--------------------------- MODULE AtomicRegistry ---------------------------
(***************************************************************************)
(* What the registry of Jenkins servers promises its users: `tp add` and   *)
(* `tp delete` change their server at a single moment, at most once, and a *)
(* command that ends in success has changed it.  Adding a server replaces  *)
(* its URL and credentials and leaves what others keep beside them alone.  *)
(***************************************************************************)
CONSTANTS
  Clients,   \* the commands
  Op,        \* what each of them does: "add" or "delete"
  Targets,   \* the servers each of them may change
  Nobody,    \* author of the servers no command added
  Servers,   \* the names of servers
  Extras,    \* what else may be kept with a server
  NoExtra    \* ... nothing

VARIABLES
  servers,   \* the server registered under each name
  status     \* how far each command is

Missing == [there |-> FALSE, author |-> Nobody, extra |-> NoExtra]
Entries == {Missing} \cup [there : {TRUE}, author : Clients \cup {Nobody}, extra : Extras]

Init ==
  /\ servers \in [Servers -> Entries]
  /\ status = [c \in Clients |-> "running"]

EndAs(c, ends) ==
  /\ status[c] = "running"
  /\ \E end \in ends : status' = [status EXCEPT ![c] = end]

(* The change is made; the answer about it may still be lost.              *)
Add(c, s) ==
  /\ Op[c] = "add" /\ s \in Targets[c] /\ EndAs(c, {"ok", "error"})
  /\ servers' = [servers EXCEPT ![s] = [there |-> TRUE, author |-> c, extra |-> servers[s].extra]]
Delete(c, s) ==
  /\ Op[c] = "delete" /\ s \in Targets[c] /\ EndAs(c, {"ok", "error"})
  /\ servers' = [servers EXCEPT ![s] = Missing]
Fail(c) == EndAs(c, {"error"}) /\ UNCHANGED servers

(* Others edit or remove the Secret of a server.                           *)
Edit(s) ==
  /\ servers[s].there /\ UNCHANGED status
  /\ \/ \E e \in Extras :
          servers' = [servers EXCEPT ![s] = [there |-> TRUE, author |-> servers[s].author, extra |-> e]]
     \/ servers' = [servers EXCEPT ![s] = Missing]

Next ==
  \/ \E c \in Clients : Fail(c) \/ \E s \in Servers : Add(c, s) \/ Delete(c, s)
  \/ \E s \in Servers : Edit(s)
Spec == Init /\ [][Next]_<<servers, status>>
=============================================================================
