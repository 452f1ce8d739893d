------------------------------- MODULE MCShellFtp -------------------------------
(* Instances of ShellFtp for TLC: clients one after the other.             *)
EXTENDS ShellFtp

Put(files) == [mode |-> "put", files |-> files]
Shell      == [mode |-> "shell", files |-> <<>>]
Passive    == [mode |-> "passive", files |-> <<>>]
Case(ss, o, c, lose, late, full) ==
  [sessions |-> ss, outputs |-> o, commands |-> c, losses |-> lose, late |-> late,
   full |-> full]

Some == {Case(<<Put(<<2, 3>>)>>, 0, 0, 3, 1, 0),
         Case(<<Put(<<2, 1>>)>>, 1, 0, 1, 0, 1),
         Case(<<Shell>>, 3, 1, 3, 1, 0),
         Case(<<Shell, Put(<<2>>), Shell>>, 3, 0, 1, 0, 0),
         Case(<<Passive>>, 3, 0, 1, 1, 0)}
=============================================================================
