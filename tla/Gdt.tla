-------------------------------- MODULE Gdt ---------------------------------
(***************************************************************************)
(* The segment descriptors of src/kernel/arch/x86/gdt.c: how gdt_set_entry *)
(* packs one and what the processor reads from it.  A 32-bit number is the *)
(* pair of its upper and lower 16 bits.                                    *)
(***************************************************************************)
EXTENDS Integers

ZERO == <<0, 0>>
ALL  == <<65535, 65535>>    \* 0xFFFFFFFF

SEG_ACCESS_PRESENT     == 128
SEG_ACCESS_PRIVILEGE_3 == 96
SEG_ACCESS_CODE        == 8
SEG_ACCESS_READABLE    == 2
SEG_ACCESS_WRITABLE    == 2
SEG_FLAG_GRANULARITY   == 8
SEG_FLAG_32BIT         == 4

Descriptor(base, limit, access, flags) ==
    [base_low   |-> base[2],
     base_mid   |-> base[1] % 256,
     base_high  |-> base[1] \div 256,
     limit_low  |-> limit[2],
     (* (flags & 0xF0) << 4, in a byte: the flags, all below 0x10, are lost *)
     limit_high |-> ((limit[1] % 16) + ((flags \div 16) * 256)) % 256,
     access     |-> access]

gdt_set_entry(g, index, base, limit, access, flags) ==
    IF index >= 6 THEN g
    ELSE [g EXCEPT ![index] = Descriptor(base, limit, access, flags)]

EmptyGdt == [i \in 0 .. 5 |-> Descriptor(ZERO, ZERO, 0, 0)]

gdt_init_table ==
    LET flags == SEG_FLAG_GRANULARITY + SEG_FLAG_32BIT
        code == SEG_ACCESS_PRESENT + SEG_ACCESS_CODE + SEG_ACCESS_READABLE
        data == SEG_ACCESS_PRESENT + SEG_ACCESS_WRITABLE
        null == gdt_set_entry(EmptyGdt, 0, ZERO, ZERO, 0, 0)
        kcode == gdt_set_entry(null, 1, ZERO, ALL, code, flags)
        kdata == gdt_set_entry(kcode, 2, ZERO, ALL, data, flags)
        ucode == gdt_set_entry(kdata, 3, ZERO, ALL, code + SEG_ACCESS_PRIVILEGE_3, flags)
        udata == gdt_set_entry(ucode, 4, ZERO, ALL, data + SEG_ACCESS_PRIVILEGE_3, flags)
    IN  gdt_set_entry(udata, 5, ZERO, ALL, SEG_ACCESS_PRESENT, flags)

(* What gdt.h documents instead: the four segments are segments of code or *)
(* data (bit 4 of the access byte), their flags in the upper nibble of     *)
(* limit_high.                                                             *)
Documented(g) ==
    [i \in 0 .. 5 |->
        IF i \in 1 .. 4
        THEN [g[i] EXCEPT !.access = @ + 16,
                          !.limit_high = @ + 16 * (SEG_FLAG_GRANULARITY + SEG_FLAG_32BIT)]
        ELSE g[i]]
-----------------------------------------------------------------------------
(* How the processor reads a descriptor: bit 4 of access tells a segment   *)
(* of code or data from a system one, bits 7 and 6 of limit_high are the   *)
(* granularity and the operand size.                                       *)
IsSegment(d) == (d.access \div 16) % 2 = 1
Pages(d)     == d.limit_high >= 128
Is32Bit(d)   == (d.limit_high \div 64) % 2 = 1
AtZero(d)    == d.base_low = 0 /\ d.base_mid = 0 /\ d.base_high = 0
Full(d)      == d.limit_low = 65535 /\ d.limit_high % 16 = 15
=============================================================================
