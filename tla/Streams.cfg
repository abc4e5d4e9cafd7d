SPECIFICATION Spec
CONSTANTS
    Kinds = {"listen", "syslog", "pcap"}
    Stoppers = {s1, s2}
    Cap = 2
PROPERTIES
    StreamEnds
    StopReturns
\* A stream that is over, or that nobody reads, stands still.
CHECK_DEADLOCK FALSE
