----------------------------- MODULE MCLspReader -----------------------------
(* Instances of LspReader for TLC: one shape for each way a message can be    *)
(* well or badly framed, with bodies of different lengths.                    *)
EXTENDS LspReader

Written(lines, body, json) == [lines |-> lines, body |-> body, json |-> json]
MCShapes ==
  {Written(<<2>>, 2, TRUE), Written(<<Other, 1>>, 1, TRUE), Written(<<2, Other>>, 2, FALSE),
   Written(<<Other>>, 2, TRUE),            \* no Content-Length
   Written(<<None>>, 1, TRUE),               \* not a number
   Written(<<0>>, 1, TRUE),                  \* not positive
   Written(<<1>>, 2, TRUE), Written(<<3>>, 2, TRUE),  \* too short, too long
   Written(<<Junk, 2>>, 2, TRUE)}

=============================================================================
