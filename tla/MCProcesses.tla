---------------------------- MODULE MCProcesses -----------------------------
(*****************************************************************************)
(* The programs that are several processes: parent and child (laboratories 9 *)
(* and 10), writer and reader of a pipe (25), and servers and clients that   *)
(* meet at one name (30). A behaviour is one program's.                      *)
(*****************************************************************************)
EXTENDS ChildProcess, PipeTransfer, OneShotServer

MCLaunchers == AllLaunchers
MCTransfers == AllTransfers
MCOneShots == AllOneShots

MCExitLine == <<120>>
MCMemory == {<<Nul>>, <<121, Nul>>}
MCTyped == UNION {[1 .. n -> {<<>>, <<97>>, <<98, 49>>, MCExitLine, Append(MCExitLine, 97)}] : n \in 0 .. 3}

VARIABLE lab
processVars == <<lab, childVars, pipeVars, oneShotVars>>

(* The programs that do not run have ended, or were not started.             *)
NoLauncher ==
  /\ launcher = Daniil9 /\ toFile = FALSE /\ parent = "gone" /\ child = "reaped"
  /\ unsaid = [p \in {"parent", "child"} |-> <<>>] /\ output = <<"text", "last">>
  /\ ending = Exited(0) /\ status = Exited(0) /\ told = [Nothing EXCEPT !.by = "done"]
NoTransfer ==
  /\ transfer = Daniil25 /\ toType = <<>> /\ line = <<>> /\ writer = "gone" /\ reader = "gone"
  /\ holders = {} /\ sent = <<>> /\ rd = 0 /\ shown = <<>> /\ strays = {}
NoOneShot == OneShotInit /\ oneShot = Daniil30

ProcessInit == \/ lab = 9 /\ LauncherInit /\ NoTransfer /\ NoOneShot
               \/ lab = 25 /\ TransferInit /\ NoLauncher /\ NoOneShot
               \/ lab = 30 /\ OneShotInit /\ NoLauncher /\ NoTransfer

ProcessNext == \/ lab = 9 /\ LauncherNext /\ UNCHANGED <<lab, pipeVars, oneShotVars>>
               \/ lab = 25 /\ TransferNext /\ UNCHANGED <<lab, childVars, oneShotVars>>
               \/ lab = 30 /\ OneShotNext /\ UNCHANGED <<lab, childVars, pipeVars>>

ProcessSpec == /\ ProcessInit /\ [][ProcessNext]_processVars
               /\ WF_childVars(ParentStep) /\ WF_childVars(ChildStep)
               /\ WF_pipeVars(WriterStep) /\ WF_pipeVars(ReaderStep)
               /\ \A s \in Servers : WF_oneShotVars(ServerStep(s))
=============================================================================
