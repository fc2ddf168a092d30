----------------------------- MODULE MCDashboard -----------------------------
EXTENDS Dashboard, TLC

Sig(n, sb, len, bo, signed) ==
  [n |-> n, sb |-> sb, len |-> len, bo |-> bo, signed |-> signed, f |-> 2, o |-> -1]

InsId == 801

MCCanIds == {InsId, Generator}
MCCanMap ==
  InsId :> << Sig(Plain("VELOCITY_N"), 0, 5, "Intel", TRUE),
              Sig(Plain("VELOCITY_E"), 5, 6, "Intel", FALSE) >>
MCPayload == << <<182, 45>>, <<77, 212>>, <<255, 1>> >>
=============================================================================
