------------------------------ MODULE Objects ------------------------------
(* The objects in the memory of the virtual machine, vm/types.h: a type       *)
(* descriptor byte and a payload.  Opcodes are objects of one byte.          *)
EXTENDS Integers, Sequences

m_bytesize == 1
m_boolsize == 1
m_addrsize == 4
m_intsize  == 8
m_realsize == 8

AddrTypes == {"ADDR_MEM", "ADDR_IP", "ADDR_SP", "ADDR_BP", "ADDR_GBP"}
ValueTypes == {"INT", "REAL", "STR"}
DataTypes == AddrTypes \cup ValueTypes

\* Bytes of an object after its type descriptor; opcodes and the booleans on
\* the stack have no descriptor, a string has its length before its characters.
PayloadSize(o) ==
    CASE o.ty = "INT"  -> m_intsize
      [] o.ty = "REAL" -> m_realsize
      [] o.ty = "STR"  -> m_addrsize + Len(o.val)
      [] o.ty = "BOOL" -> m_boolsize
      [] o.ty = "OP"   -> m_bytesize
      [] OTHER         -> m_addrsize

SizeOf(o) == IF o.ty \in {"BOOL", "OP"} THEN m_bytesize
             ELSE m_bytesize + PayloadSize(o)

Int64(n)   == [ty |-> "INT", val |-> n]
Bool(b)    == [ty |-> "BOOL", val |-> b]
AddrMem(a) == [ty |-> "ADDR_MEM", val |-> a]
=============================================================================
