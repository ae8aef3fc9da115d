---------------------------- MODULE MCSandboxRun ----------------------------
(***************************************************************************)
(* A small instance of SandboxRun for TLC.                                 *)
(***************************************************************************)
EXTENDS SandboxRun

MCNames          == {"usr", "bin", "state", "log", "in", "work", "out", "a"}
MCSystemPaths    == {<<"usr">>}
MCStateDirectory == <<"state">>

Bind(source, destination, writable) ==
  [source |-> source, destination |-> destination, writable |-> writable, canonical |-> TRUE]

Request(profile, mounts, outputs) ==
  [approved |-> TRUE, wellFormed |-> TRUE, enoughTasks |-> TRUE, profile |-> profile,
   mounts |-> mounts, outputs |-> outputs]

(* A read-only input and a writable output.                                *)
Usual == <<Bind(<<"in">>, <<"in">>, FALSE), Bind(<<"work">>, <<"out">>, TRUE)>>

(* A mount inside another one.                                             *)
Nested == <<Bind(<<"work">>, <<"out">>, TRUE), Bind(<<"in">>, <<"out", "a">>, FALSE)>>

(* A mount of the adapter's own records.                                   *)
Records == <<Bind(<<"state", "log">>, <<"out">>, TRUE)>>

Output == {<<"out", "a">>}

MCRequests ==
  {Request("local-oci", Usual, Output), Request("gvisor", Usual, Output),
   Request("local-oci", Nested, Output), Request("local-oci", Records, Output)}

(* Each of these is refused for a reason of its own.                       *)
MCRefused ==
  {[Request("local-oci", Usual, Output) EXCEPT !.approved = FALSE],
   [Request("local-oci", Usual, Output) EXCEPT !.wellFormed = FALSE],
   [Request("gvisor", Usual, Output) EXCEPT !.enoughTasks = FALSE],
   Request("local-oci", Usual, {<<"in", "a">>}),
   Request("local-oci", <<Bind(<<"work">>, <<"usr", "bin">>, TRUE)>>, {}),
   Request("local-oci", <<>>, {})}

Ending(exit, oom, error) == [exit |-> exit, oom |-> oom, error |-> error]

(* Success, and one ending for every branch of the classification.         *)
MCEndings ==
  {Ending(0, "no", FALSE), Ending(0, "marked", FALSE), Ending(0, "no", TRUE),
   Ending(1, "no", FALSE), Ending(137, "late", FALSE), Ending(137, "no", FALSE),
   Ending(153, "no", FALSE)}

(* For liveness: one request per profile, two endings.                     *)
MCUsual == {Request("local-oci", Usual, Output), Request("gvisor", Usual, Output)}
MCTwoEndings == {Ending(0, "no", FALSE), Ending(137, "late", FALSE)}

MCAllRequests == MCRequests \cup MCRefused

=============================================================================
