------------------------------ MODULE MCApprovals -----------------------------
(***************************************************************************)
(* Small instances of Approvals: two children and a launch, two patterns,  *)
(* one of them with a command that only reads, and a setup for every       *)
(* surface and policy.                                                     *)
(***************************************************************************)
EXTENDS Approvals, TLC

CONSTANTS c1, c2, l1, net, disk

Fetch  == [pattern |-> net, readOnly |-> TRUE]
Upload == [pattern |-> net, readOnly |-> FALSE]
Delete == [pattern |-> disk, readOnly |-> FALSE]

SomeCommands == {Fetch, Upload, Delete}

Setup(surface, prompt, policy, mode, fallback) ==
  [surface |-> surface, prompt |-> prompt, policy |-> policy, mode |-> mode,
   fallback |-> fallback, context |-> surface = "gateway",
   gated |-> TRUE, allowlist |-> {}]

SomeSetups ==
  {[Setup("cli", TRUE, "inherit", "manual", "smart") EXCEPT !.gated = FALSE],
   Setup("cli", FALSE, "ask", "manual", "smart"),
   Setup("cli", TRUE, "inherit", "unknown", "smart"),
   [Setup("gateway", FALSE, "inherit", "manual", "smart") EXCEPT !.allowlist = {disk}],
   Setup("gateway", FALSE, "inherit", "smart", "deny"),
   [Setup("gateway", FALSE, "ask", "manual", "smart") EXCEPT !.context = FALSE],
   Setup("headless", FALSE, "ask", "manual", "deny"),
   Setup("headless", FALSE, "inherit", "off", "deny"),
   Setup("gateway", FALSE, "deny", "manual", "deny")}

ChildSymmetry == Permutations({c1, c2})
===============================================================================
