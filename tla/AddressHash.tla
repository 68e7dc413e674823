---------------------------- MODULE AddressHash ----------------------------
(***************************************************************************)
(* Mempool::partition_for_address of src/consensus/mod.rs.  An address is  *)
(* a sequence of bytes; WordSize stands for the 2^64 of the u64            *)
(* accumulator, so that wrapping_mul and wrapping_add are `% WordSize'.    *)
(***************************************************************************)
EXTENDS Naturals, Sequences

CONSTANT WordSize

Hash(address) ==
    LET acc[i \in 0 .. Len(address)] ==
            IF i = 0 THEN 0
            ELSE (((acc[i - 1] * 31) % WordSize) + address[i]) % WordSize
    IN  acc[Len(address)]

partition_for_address(address, partition_count) ==
    IF address = <<>> THEN 0 ELSE Hash(address) % partition_count

=============================================================================
