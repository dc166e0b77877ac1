------------------------------ MODULE MCHblogRun ------------------------------
(* The command lines of the run: one of each channel, with every credential,   *)
(* and some that are refused.  Text 19 and 29 are lines of Homebridge's core.  *)
EXTENDS HblogRun

Plain == [follow |-> FALSE, all |-> FALSE, lines |-> 0, since |-> 0, until |-> 0,
          flag |-> {}, env |-> {}, config |-> "absent", file |-> {"token"}]

Scene(f, l) == [flags |-> f, log |-> l]

MCScenes ==
  {Scene(Plain, <<10, 20, 5>>),
   Scene([Plain EXCEPT !.lines = 1, !.follow = TRUE], <<10, 20>>),
   Scene([Plain EXCEPT !.all = TRUE, !.follow = TRUE], <<10, 20, 5>>),
   Scene([Plain EXCEPT !.since = 2], <<11, 20>>),
   Scene([Plain EXCEPT !.since = 2], <<11, 29, 20>>),
   Scene([Plain EXCEPT !.since = 2, !.follow = TRUE], <<10, 19, 11>>),
   Scene([Plain EXCEPT !.until = 1], <<29, 10, 5>>),
   Scene([Plain EXCEPT !.since = 2, !.follow = TRUE, !.config = "read"], <<11, 20, 5>>),
   Scene([Plain EXCEPT !.until = 1, !.flag = {"user"}, !.env = {"pass"}], <<10, 20, 5>>)}
  \cup
  {Scene(f, <<10, 20, 5>>) :
     f \in {[Plain EXCEPT !.lines = 1],
            [Plain EXCEPT !.all = TRUE],
            [Plain EXCEPT !.all = TRUE, !.lines = 1],
            [Plain EXCEPT !.since = 1, !.until = 2, !.follow = TRUE],
            [Plain EXCEPT !.env = {"user"}],
            [Plain EXCEPT !.config = "broken"]}}
===============================================================================
