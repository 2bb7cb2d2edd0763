----------------------------- MODULE MCBackends -----------------------------
(* Instance of Backends for TLC: two descriptors and files of every kind;  *)
(* kernels on both sides of every limit of the detection and of            *)
(* io_uring_setup, with io_uring and without; one machine of each kind for *)
(* the environment.                                                        *)
EXTENDS Backends

CONSTANTS socket, pipe, disk

Plain(v) ==
  [version |-> v, parses |-> TRUE, ioUring |-> TRUE,
   opcodes |-> {"Read", "Write", "PollAdd", "Recv", "Accept", "Timeout", "AsyncCancel"},
   container |-> FALSE, kubernetes |-> FALSE, serverless |-> FALSE, restricted |-> FALSE,
   cpus |-> 4, memory |-> "over 1024 MB"]

Machines ==
  {Plain(<<5, 19>>), Plain(<<6, 1>>), Plain(<<6, 12>>),
   [Plain(<<4, 19>>) EXCEPT !.ioUring = FALSE],
   [Plain(<<5, 1>>) EXCEPT !.opcodes = {"Read"}, !.restricted = TRUE, !.cpus = 1,
                           !.memory = "unknown"],
   [Plain(<<5, 11>>) EXCEPT !.serverless = TRUE, !.memory = "over 512 MB"],
   [Plain(<<6, 0>>) EXCEPT !.kubernetes = TRUE, !.restricted = TRUE, !.cpus = 64],
   [Plain(<<6, 1>>) EXCEPT !.parses = FALSE],
   [Plain(<<6, 6>>) EXCEPT !.ioUring = FALSE, !.container = TRUE]}
=============================================================================
