--------------------------- MODULE MCShellSession ---------------------------
(* Sessions of one or two typed lines.                                     *)
EXTENDS ShellSession

Cmd(name, when) == [name |-> name, when |-> when]

(* One command, the driver alone, and lists whose second command depends   *)
(* on the first.                                                           *)
SomeLists ==
    {<<Cmd("cmd", "always"), Cmd("cc", "and")>>,
     <<Cmd("cc", "always"), Cmd("cmd", "or")>>,
     <<Cmd("exit", "always")>>}
CcOnly    == {<<Cmd("cc", "always")>>}
TwoInList == {<<Cmd("cmd", "always"), Cmd("cmd", "always")>>}

SessionKeys   == {"none", Newline, "interrupt"}
SessionPoints == {"init", "sh", "cmd", "cc", "stage"}
=============================================================================
