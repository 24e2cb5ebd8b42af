------------------------------- MODULE MCPowerCtl -------------------------------
(* PowerCtl for TLC: a few boot entries, one of them numbered above 9 and so read *)
(* under another name, and calls that run at the same time and are alike.        *)
EXTENDS PowerCtl, TLC

W == 87
R == 82
Option(bytes) == <<1, 0, 0, 0, 4, 0>> \o bytes

\* A description that is cut off in the middle of a unit, one with blanks around it that
\* the variable ends with, and less than a header.
MCContent ==
    { Option(<<R, 0, W>>), Option(<<32, 0, W, 0, 32, 0, 0, 0>>), <<1, 0, 0, 0, 4>> }
MCText == {<<W>>}

\* For one call: two texts, each in front of a device path.
MCContentOfTwo == { Option(<<R, 0, 0, 0, 4, 4>>), Option(<<W, 0, 0, 0, 4, 4>>) }
MCTwoTexts == {<<W>>, <<R>>}

CallSymmetry == Permutations(Call)
================================================================================
