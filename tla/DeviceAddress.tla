---------------------------- MODULE DeviceAddress ----------------------------
(* LoraDeviceAddress: 7 bits of network, 25 bits of address within it, and    *)
(* the calls of LoraDeviceAddressGenerator as functions of its two counters.  *)
EXTENDS Integers, Sequences

IdRange == 2^7
AddrRange == 2^25

(* In the mutant the high bits are kept.                                      *)
Unmasked(n) == n
NwkID(n) == n % IdRange                 \* NwkID::Set drops the other bits
NwkAddr(n) == n % AddrRange             \* NwkAddr::Set

Address == [nwkId : 0 .. IdRange - 1, nwkAddr : 0 .. AddrRange - 1]
AddressOf(id, addr) == [nwkId |-> NwkID(id), nwkAddr |-> NwkAddr(addr)]

(* The 32-bit word of Get, most significant byte first, and Set from one.     *)
AddressBytes(a) ==
    <<2 * a.nwkId + a.nwkAddr \div 2^24, (a.nwkAddr \div 2^16) % 256,
      (a.nwkAddr \div 256) % 256, a.nwkAddr % 256>>
AddressFromBytes(b) ==
    AddressOf(b[1] \div 2, (b[1] % 2) * 2^24 + b[2] * 2^16 + b[3] * 256 + b[4])

(* operator< compares the words; std::map finds an address with it alone.     *)
Less(a, b) == \/ a.nwkId < b.nwkId
              \/ a.nwkId = b.nwkId /\ a.nwkAddr < b.nwkAddr
Equivalent(a, b) == ~Less(a, b) /\ ~Less(b, a)

------------------------------------------------------------------------------
(* The generator: what a call returns, and the state it leaves.               *)
Generator(id, addr) == AddressOf(id, addr)
NextAddress(gen) == gen
(* In the mutant the counter is not stored back.                              *)
Unadvanced(gen) == gen
AfterNextAddress(gen) == AddressOf(gen.nwkId, gen.nwkAddr + 1)
NextNetwork(gen) == AddressOf(gen.nwkId + 1, 0)
AfterNextNetwork(gen) == NextNetwork(gen)
GetNextAddress(gen) == AddressOf(gen.nwkId, gen.nwkAddr + 1)
=============================================================================
