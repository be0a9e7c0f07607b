------------------------------- MODULE MCCpu -------------------------------
(* Small instances of Cpu: a few words of memory that hold both sets of      *)
(* exception vectors, and a target that is not aligned.                      *)
EXTENDS Cpu

\* An interrupt-free kernel that may clear and set EXL and BEV.
MCStatusQuiet ==
  {[EXL |-> x, ERL |-> e, IE |-> FALSE, BEV |-> b, IM |-> {}] :
     x \in BOOLEAN, e \in BOOLEAN, b \in BOOLEAN}

\* A kernel that leaves the boot vectors, enables and disables interrupts and
\* returns to a handler.
MCStatus ==
  {[EXL |-> x, ERL |-> FALSE, IE |-> ~x, BEV |-> x, IM |-> {1, 4, 7}] : x \in BOOLEAN}
  \union {[EXL |-> FALSE, ERL |-> TRUE, IE |-> TRUE, BEV |-> FALSE, IM |-> {1, 4, 7}]}

MCCause == {[IV |-> TRUE, IP |-> {}], [IV |-> FALSE, IP |-> {1, 4}]}
MCCauseQuiet == {[IV |-> FALSE, IP |-> {}]}
=============================================================================
