-------------------------- MODULE MCRegistryClients --------------------------
(***************************************************************************)
(* An instance of RegistryClients for TLC: the program of an admin that    *)
(* registers and deactivates an institution, and the institution's, which  *)
(* sends the other calls and tries to anchor two values for one trait.     *)
(***************************************************************************)
EXTENDS RegistryClients

MCAnchor(trait, commitment) ==
  [method |-> "register_anchor", trait |-> trait, commitment |-> commitment]

MCSends ==
  [sender : {"a"},
   call : {[method |-> "register_institution", address |-> "b", profile |-> "p"],
           [method |-> "deactivate_institution", address |-> "b"]}]
  \cup
  [sender : {"b"},
   call : {MCAnchor("t1", "c1"), MCAnchor("t1", "c2"), MCAnchor("t2", "c1"),
           [method |-> "verify_zk_claim", trait |-> "t1", proof |-> "p1",
            threshold |-> 1, hash |-> "h"],
           [method |-> "set_verifier", app |-> "v"]}]
=============================================================================
