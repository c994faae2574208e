--------------------------- MODULE MCModbusMapper ---------------------------
(* Small instances of ModbusMapper for TLC: values and addresses at the    *)
(* edges of their words.                                                   *)
EXTENDS ModbusMapper

MCHeader(s, f, a, n) ==
  [Slave |-> s, FunctionCode |-> f, Address |-> a, NumberOfCoilsOrRegisters |-> n]

MCMapping(s, f, a, n, p) ==
  [Slave |-> s, FunctionCode |-> f, Address |-> a, NumberOfCoilsOrRegisters |-> n,
   path |-> p]

MCValues == {0, 255, 50001, 65280, 65535}

(* Registers up to the last address, two kinds of coils, and a group of    *)
(* registers at the addresses of one of them.                              *)
MCGroups == {MCHeader(1, 4, 65534, 2), MCHeader(2, 1, 255, 2),
             MCHeader(1, 2, 256, 2), MCHeader(1, 4, 256, 1)}

MCShort == {<<>>, <<1, 0, 4, 0, 0, 0, 1>>}

(* The first mapping also passes the test for the registers at 256, and    *)
(* the second one for no message.                                          *)
MCMappings ==
  << MCMapping(1, 4, 65534, 2, "a"), MCMapping(1, 4, 65534, 1, "b"),
     MCMapping(1, 4, 65535, 1, "a"), MCMapping(1, 4, 65532, 3, "c"),
     MCMapping(1, 4, 256, 1, "a"), MCMapping(1, 4, 256, 2, "b"),
     MCMapping(2, 1, 255, 2, "b"), MCMapping(2, 1, 256, 2, "b"),
     MCMapping(1, 2, 257, 2, "c"), MCMapping(1, 2, 256, 2, "c"),
     MCMapping(1, 4, 256, 1, "d"), MCMapping(1, 4, 300, 1, "d") >>

=============================================================================
