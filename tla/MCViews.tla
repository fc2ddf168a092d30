------------------------------- MODULE MCViews --------------------------------
EXTENDS DashboardViews

(* A signed Intel signal and a Motorola one, each of bits of two bytes.     *)
MCDescriptors ==
  << [n |-> Plain("a"), sb |-> 3, len |-> 6, bo |-> "Intel", signed |-> TRUE, f |-> 2, o |-> -1],
     [n |-> Plain("b"), sb |-> 1, len |-> 5, bo |-> "Motorola", signed |-> FALSE, f |-> 1, o |-> 0] >>
MCContents == { <<2, 129>>, <<121, 96>> }

\* Two cells of a battery, a speed, the state of the car and a fault.
MCSummed == << "c1", "c2" >>
MCCards == [CELL_MIN |-> [names |-> MCSummed, aggregate |-> "min"],
            CELL_MAX |-> [names |-> MCSummed, aggregate |-> "max"],
            RPM |-> [names |-> << >>, aggregate |-> "none"]]
MCIndicators == [vcu |-> [kind |-> "state", names |-> << "VCU_STATE" >>, alerts |-> {4}],
                 hv |-> [kind |-> "binary", names |-> << "HV_ON", "RPM" >>, alerts |-> {}]]
MCFaults == { <<"Fault_IMD", None>>, <<"IMD_OK", 0>> }
MCBatches ==
  { "c1" :> 3, "c1" :> 1 @@ "RPM" :> 0, "c1" :> 2 @@ "c2" :> 2, "c2" :> 4 @@ "VCU_STATE" :> 4,
    "CELL_MIN" :> 2 @@ "VCU_STATE" :> 0, "RPM" :> 7 @@ "IMD_OK" :> 1 @@ "Fault_IMD" :> 0,
    "IMD_OK" :> 0, "Fault_IMD" :> 1 @@ "HV_ON" :> 0 }

MCMeasured == << [latency |-> 0, rssi |-> None], [latency |-> 5000, rssi |-> -70],
                 [latency |-> 4999, rssi |-> -83] >>
=============================================================================
