------------------------------ MODULE MCIoConn ------------------------------
EXTENDS IoConn

MCConfigs ==
    { [layer |-> FALSE, threshold |-> 2, max_in |-> 0, max_out |-> 3, faults |-> {"reset"},
       calls |-> {"encode", "flush", "flush_part", "close", "drop", "cancel", "vectored", "send_buf", "pause"}],
      [layer |-> FALSE, threshold |-> 2, max_in |-> 3, max_out |-> 0, faults |-> {"eof", "reset"},
       calls |-> {"recv", "pause", "notify", "shutdown", "drop", "cancel", "timer"}],
      [layer |-> TRUE, threshold |-> 2, max_in |-> 2, max_out |-> 1, faults |-> {"reset"},
       calls |-> {"encode", "recv", "close", "drop"}],
      [layer |-> FALSE, threshold |-> 0, max_in |-> 1, max_out |-> 2, faults |-> {"eof", "reset"},
       calls |-> {"encode", "recv", "flush", "close", "terminate", "on_disconnect", "drop"}] }

\* Small connections for the liveness properties
LiveConfigs ==
    { [layer |-> FALSE, threshold |-> 2, max_in |-> 1, max_out |-> 2, faults |-> {"eof"},
       calls |-> {"encode", "flush", "recv", "shutdown"}],
      [layer |-> TRUE, threshold |-> 0, max_in |-> 1, max_out |-> 1, faults |-> {"reset"},
       calls |-> {"encode", "flush", "recv", "close", "drop"}] }

\* The owner of the Io keeps it after a graceful close.
DisconnectConfigs ==
    { [layer |-> FALSE, threshold |-> 2, max_in |-> 0, max_out |-> 1, faults |-> {},
       calls |-> {"encode", "shutdown", "on_disconnect"}] }

\* A filter that meets faults in what the peer sends
ReasonConfigs ==
    { [layer |-> TRUE, threshold |-> 2, max_in |-> 2, max_out |-> 0, faults |-> {},
       calls |-> {"recv"}] }
=============================================================================
