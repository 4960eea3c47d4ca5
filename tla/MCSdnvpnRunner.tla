--------------------------- MODULE MCSdnvpnRunner ---------------------------
EXTENDS SdnvpnRunner

\* Enabled testcases around a disabled one, as testcase_7 is in config.yaml.
MCOrder == <<[name |-> "testcase_4", enabled |-> TRUE],
             [name |-> "testcase_7", enabled |-> FALSE],
             [name |-> "testcase_8", enabled |-> TRUE],
             [name |-> "testcase_9", enabled |-> TRUE]>>
=============================================================================
