----------------------------- MODULE MCSeqServer -----------------------------
(***************************************************************************)
(* The programs of assignment 5, and the unit tests, of which one runs.     *)
(*                                                                         *)
(* Two clients, a line buffer of four bytes and a read buffer of three:     *)
(* lines that fit, one that does not, ends without a newline, commands with *)
(* and without a carriage return, input behind a command.  Two faults in    *)
(* the code under test.                                                    *)
(***************************************************************************)
EXTENDS SeqServer, UnitTests

MCIntMin == -2048
a == Word("a")
MCScripts == {
  <<a, Op("="), Num(1), Nl, a, Nl>>,
  <<a, Op("="), a, Op("+"), Num(1), Nl>>,
  <<Word("quit"), Cr, Nl, a, Nl>>,
  <<a, Nl, Word("shutdown"), Nl>>,
  <<Num(2), Nl, Word("quit")>>,
  <<BadNum, Nl>> }
MCNl == [cls |-> "nl", name |-> "", val |-> 0]
MCCr == [cls |-> "cr", name |-> "", val |-> 0]
MCError == [cls |-> "error", name |-> "", val |-> 0]

-----------------------------------------------------------------------------
NoServer == Start /\ program = "none" /\ pc = "none"

ProgramsInit == (Init /\ NoTests) \/ (NoServer /\ MainStarts)
ProgramsNext ==
  \/ program # "none" /\ Next /\ UNCHANGED testvars
  \/ program = "none" /\ TestsNext /\ UNCHANGED allvars
ProgramsSpec ==
  /\ ProgramsInit /\ [][ProgramsNext]_<<allvars, testvars>>
  /\ WF_<<allvars, testvars>>(program # "none" /\ Progress /\ UNCHANGED testvars)
=============================================================================
