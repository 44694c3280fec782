-------------------------- MODULE MCHarnessLedger --------------------------
(* Instances of HarnessLedger for TLC, one setting per kind of finding.     *)
EXTENDS HarnessLedger

Setting(findings, analysis, moves) ==
    [findings |-> findings, analysis |-> analysis, moves |-> moves]

AllSettings ==
    {Setting({"live", "ended"}, "on", 2), Setting({"gap"}, "on", 3), Setting({"job"}, "on", 3),
     Setting({"reask"}, "off", 3), Setting({"reask"}, "on", 2), Setting({"skill"}, "on", 3),
     Setting({"skill"}, "off", 3), Setting({"spent", "stall"}, "on", 2)}

JobSetting == {Setting({"job"}, "off", 1)}
=============================================================================
