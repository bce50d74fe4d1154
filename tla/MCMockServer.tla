----------------------------- MODULE MCMockServer -----------------------------
(***************************************************************************)
(* Three clients that share a flaky key, that submit, and that fill the    *)
(* pool with sleeping handlers; a pool of two threads.                     *)
(***************************************************************************)
EXTENDS MockServer, TLC

Setting(lock, a, b, c) ==
  [gil |-> lock, asks |-> ("c1" :> a) @@ ("c2" :> b) @@ ("c3" :> c)]

MCSettings ==
  {Setting(TRUE, "/flaky", "/flaky", "/flaky"),
   Setting(TRUE, "/flaky", "/flaky", "/slow"),
   Setting(TRUE, "/flaky", "/slow", "/data"),
   Setting(TRUE, "/submit", "/submit", "/slow"),
   Setting(FALSE, "/flaky", "/flaky", "/data"),
   Setting(FALSE, "/submit", "/submit", "/data")}
=============================================================================
