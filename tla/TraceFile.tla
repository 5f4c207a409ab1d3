----------------------------- MODULE TraceFile ------------------------------
(***************************************************************************)
(* The trace files between the monitor and the decoder: the header lines   *)
(* that the monitor writes about the machine (output_op_header,            *)
(* output_fetch_header of tools/ibs_monitor/ibs_monitor.c), what the       *)
(* decoder understands of them, and the header and rows of the CSV files   *)
(* it writes (tools/ibs_decoder/ibs_decoder.c).                            *)
(*                                                                         *)
(* A machine is [fam, model, id, text] with id the set of one bits of      *)
(* CPUID_Fn8000_001B_EAX and text the free text of the header.  A column   *)
(* or cell is named by the sample field it is about; the values' text, "-" *)
(* for a value that is not valid included, is left out.  A field with two  *)
(* names, depending on the family, has one here.                           *)
(***************************************************************************)
EXTENDS Integers, Sequences, SequencesExt

\* print_hdr(..., "Name: %u\n", value).
Line(key, bool) == <<key, IF bool THEN 1 ELSE 0>>
Bit(m, b) == b \in m.id

\* check_basic_ibs_support, check_ibs_op_support, check_ibs_fetch_support: the
\* monitor refuses other machines.
OpSupported(m) == m.fam >= 16 /\ m.fam # 17 /\ {0, 2, 4} \subseteq m.id
FetchSupported(m) == m.fam >= 16 /\ m.fam # 17 /\ {0, 1} \subseteq m.id

Old15(m) == m.fam = 21 /\ m.model < 16
Cz(m) == (m.fam = 21 /\ m.model >= 96) \/ m.fam = 23

\* Each line of a header is <<key, value>> as the decoder reads it with
\* fgets(line, 255): a text that holds a line break or is longer than 254 bytes
\* is read as several lines, and all but the first can begin with anything.
Other == <<"other", 0>>     \* begins with no key, or has no value after it
End   == <<"end", 0>>       \* 45 equal signs

\* output_machine_setup: family and model, then stepping, name, memory, host, OS,
\* time, working directory and command line, of which m.text is what the decoder
\* reads.  Of what follows only the lines with a key are written here.
MachineLines(m) == << <<"Family", m.fam>>, <<"Model", m.model>> >> \o m.text

OpFlags(m) ==
  LET resync == m.fam \in {16, 18, 20} \/ Old15(m)
  IN  << Line("BrnResync", resync), Line("MispReturn", resync),
         Line("BrnTrgt", Bit(m, 5)), Line("OpCntExt", Bit(m, 6)),
         Line("RipInvalidChk", Bit(m, 7)), Line("BrnFuse", Bit(m, 8)),
         Line("OpData4", Bit(m, 10)), Line("Microcode", Cz(m)),
         Line("OpData2_4_5", m.fam \notin {20, 22}),
         Line("LdBnkCon", m.fam <= 18 \/ Old15(m)),
         Line("StBnkCon", m.fam <= 18),
         Line("StToLdFwd", m.fam <= 18 \/ m.fam \in {20, 22} \/ Old15(m)),
         Line("StToLdCan", m.fam <= 18 \/ Old15(m)),
         Line("Data3_20_31_48_63", m.fam >= 22 \/ (m.fam = 21 /\ m.model >= 48)) >>
FetchFlags(m) == <<Line("FetchCtlExtd", Bit(m, 9))>>

OpTraceHeader(m) == MachineLines(m) \o OpFlags(m) \o <<End>>
FetchTraceHeader(m) == MachineLines(m) \o FetchFlags(m) \o <<End>>

OpKeys == {"Family", "Model", "BrnResync", "MispReturn", "BrnTrgt", "OpCntExt",
           "RipInvalidChk", "BrnFuse", "OpData4", "Microcode", "OpData2_4_5",
           "LdBnkCon", "StBnkCon", "StToLdFwd", "StToLdCan", "Data3_20_31_48_63"}
FetchKeys == {"Family", "Model", "FetchCtlExtd"}
HeaderLine == (OpKeys \cup FetchKeys \cup {"other", "end"}) \X Nat

\* The decoder stops at the first line of equal signs.
FirstEnd(lines) == CHOOSE i \in DOMAIN lines :
                     lines[i] = End /\ \A j \in 1 .. i - 1 : lines[j] # End
\* header_parse: a value starts as 0 and is taken from every line with its key.
ParseLines(keys, lines) ==
  FoldLeft(LAMBDA val, l : IF l[1] \in keys THEN [val EXCEPT ![l[1]] = l[2]] ELSE val,
           [k \in keys |-> 0], lines)
ParseHeader(keys, lines) == ParseLines(keys, SubSeq(lines, 1, FirstEnd(lines) - 1))

If(flag, names) == IF flag # 0 THEN names ELSE <<>>
Common == <<"tsc", "cpu", "tid", "pid", "kern_mode">>

-----------------------------------------------------------------------------
(* The op file.  v holds the parsed values, s the sample's bits that       *)
(* decide what is printed.                                                 *)

OpHeaderCells(v) ==
  Common \o <<"op_rip", "op_max_cnt", "comp_to_ret", "tag_to_ret">>
  \o If(v.BrnResync, <<"brn_resync">>) \o If(v.MispReturn, <<"misp_return">>)
  \o <<"op_return", "brn_taken", "brn_misp", "brn_ret">>
  \o If(v.RipInvalidChk, <<"rip_invalid">>) \o If(v.BrnFuse, <<"brn_fuse">>)
  \o If(v.Microcode, <<"microcode">>)
  \o <<"req_src">> \o If(v.OpData2_4_5, <<"dst_node", "cache_hit_st">>)
  \o <<"ld_op", "st_op", "l1tlb_miss", "l2tlb_miss", "l1tlb_2m", "l1tlb_1g",
       "l2tlb_2m", "dc_miss", "mis_acc">>
  \o If(v.LdBnkCon, <<"ld_bnk_con">>) \o If(v.StBnkCon, <<"st_bnk_con">>)
  \o If(v.StToLdFwd, <<"st_to_ld_fwd">>) \o If(v.StToLdCan, <<"st_to_ld_can">>)
  \o <<"wc_mem_acc", "uc_mem_acc", "locked_op", "mab", "lin_valid", "phy_valid",
       "l2tlb_1g">>
  \o If(v.Data3_20_31_48_63, <<"l2_miss", "sw_pf", "mem_width", "open_mem_reqs">>)
  \o <<"miss_lat">> \o If(v.Data3_20_31_48_63, <<"tlb_refill_lat">>)
  \o <<"dc_lin_ad", "dc_phys_ad">>
  \o If(v.BrnTrgt, <<"br_target">>) \o If(v.OpData4, <<"ld_resync">>)

\* IBS_OP_DATA2 is valid for loads that missed, in L2 as well if that is known.
NbDataValid(v, s) ==
  /\ s.ld_op /\ s.dc_miss
  /\ v.Data3_20_31_48_63 # 0 => s.l2_miss
  /\ ~(v.Family = 20 /\ s.wc_mem_acc)
\* Without valid data three dashes are printed.
Blank == "-"
NbCellsTwoBlanks(v, s) ==
  IF NbDataValid(v, s) THEN <<"req_src">> \o If(v.OpData2_4_5, <<"dst_node", "cache_hit_st">>)
                       ELSE <<Blank, Blank>>
NbCells(v, s) ==
  IF NbDataValid(v, s) THEN <<"req_src">> \o If(v.OpData2_4_5, <<"dst_node", "cache_hit_st">>)
                       ELSE <<Blank, Blank, Blank>>

\* The rest of the row, from IBS_OP_DATA3 on.
Data3Cells(v) ==
  <<"ld_op", "st_op", "l1tlb_miss", "l2tlb_miss", "l1tlb_2m", "l1tlb_1g",
    "l2tlb_2m", "dc_miss", "mis_acc">>
  \o If(v.LdBnkCon, <<"ld_bnk_con">>) \o If(v.StBnkCon, <<"st_bnk_con">>)
  \o If(v.StToLdFwd, <<"st_to_ld_fwd">>) \o If(v.StToLdCan, <<"st_to_ld_can">>)
  \o <<"wc_mem_acc", "uc_mem_acc", "locked_op", "mab", "lin_valid", "phy_valid",
       "l2tlb_1g">>
  \o If(v.Data3_20_31_48_63, <<"l2_miss", "sw_pf", "mem_width", "open_mem_reqs">>)
  \o <<"miss_lat">> \o If(v.Data3_20_31_48_63, <<"tlb_refill_lat">>)
  \o <<"dc_lin_ad", "dc_phys_ad">>
  \o If(v.BrnTrgt, <<"br_target">>) \o If(v.OpData4, <<"ld_resync">>)

OpRow(v, s) ==
  Common \o <<"op_rip", "op_max_cnt", "comp_to_ret", "tag_to_ret">>
  \o If(v.BrnResync, <<"brn_resync">>) \o If(v.MispReturn, <<"misp_return">>)
  \o <<"brn_ret", "brn_taken", "brn_misp", "brn_ret">>
  \o If(v.RipInvalidChk, <<"rip_invalid">>) \o If(v.BrnFuse, <<"brn_fuse">>)
  \o If(v.Microcode, <<"microcode">>)
  \o NbCells(v, s) \o Data3Cells(v)

-----------------------------------------------------------------------------
(* The fetch file.                                                         *)

\* output_fetch_header and output_fetch_entry test the same conditions.
FetchL2Miss(v) == (v.Family = 21 /\ v.Model >= 96) \/ v.Family = 23

FetchHeaderCells(v) ==
  Common \o <<"phy_valid", "lin_ad", "phys_ad", "fetch_max_cnt", "fetch_lat",
              "fetch_comp", "ic_miss", "l1tlb_pg_sz", "l1tlb_miss", "l2tlb_miss">>
  \o (IF FetchL2Miss(v) THEN <<"l2_miss">> ELSE <<>>)
  \o If(v.FetchCtlExtd, <<"itlb_refill_lat">>)

FetchRow(v) ==
  Common \o <<"phy_valid", "lin_ad", "phys_ad", "fetch_max_cnt", "fetch_lat",
              "fetch_comp", "ic_miss", "l1tlb_pg_sz", "l1tlb_miss", "l2tlb_miss">>
  \o (IF FetchL2Miss(v) THEN <<"l2_miss">> ELSE <<>>)
  \o If(v.FetchCtlExtd, <<"itlb_refill_lat">>)

\* The count that the decoder prints, from the fields of the control register:
\* for op bits 0 to 15 and, with the extension, 20 to 26; for fetch 0 to 15.
Number(w) == FoldSet(LAMBDA b, sum : sum + 2^b, 0, w)
FieldValue(reg, first, last) == Number({b - first : b \in reg \cap (first .. last)})
OpMaxCntPacked(extended, reg) ==
  (IF extended THEN FieldValue(reg, 20, 26) * 2^16 ELSE 0) + FieldValue(reg, 0, 15) * 2^4
OpMaxCnt(extended, reg) ==
  (IF extended THEN FieldValue(reg, 20, 26) * 2^20 ELSE 0) + FieldValue(reg, 0, 15) * 2^4
FetchMaxCnt(reg) == FieldValue(reg, 0, 15) * 2^4
=============================================================================
