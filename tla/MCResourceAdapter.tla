-------------------------- MODULE MCResourceAdapter --------------------------
(* Two workers and two files, the second not there at first.               *)
EXTENDS ResourceAdapter, TLC

CONSTANTS w1, w2, a, b, edit, run, project, removal, new

McOp == {edit, run, project, removal}
McOwnerOf == [o \in McOp |-> CASE o = removal -> removal [] o = edit -> w1 [] OTHER -> w2]
McKindOf == [o \in McOp |-> CASE o = edit -> "tool" [] o = run -> "run"
                              [] o = project -> "project" [] OTHER -> "removal"]

With(F, t, n, c, l) ==
    [files |-> F, terms |-> t, asks |-> n, crashes |-> c, lost |-> l]

(* A command and an edit of the file it changes, with a takeover and with  *)
(* a restart; an edit that creates a file in the directory a command       *)
(* lists; a project command and an edit of its file; a removal against an  *)
(* edit and against a project command; an edit and a command of two files. *)
McCasts ==
    { With(edit :> {a} @@ run :> {a}, 3, 2, 0, 0),
      With(edit :> {a} @@ run :> {a}, 2, 1, 1, 0),
      With(edit :> {b} @@ run :> {a}, 2, 2, 0, 0),
      With(edit :> {a} @@ project :> {a}, 2, 1, 1, 1),
      With(edit :> {a} @@ removal :> {a}, 2, 2, 1, 0),
      With(project :> {a} @@ removal :> {a}, 2, 0, 0, 0),
      With(edit :> {a, b}, 2, 2, 0, 1),
      With(run :> {a, b}, 2, 1, 0, 0) }
=============================================================================
