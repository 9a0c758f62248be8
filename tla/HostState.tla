----------------------------- MODULE HostState ------------------------------
(***************************************************************************)
(* The state of the benchmark programs: that of the batches, of the flash, *)
(* of the FIFOs that overflow to the host and of the tests of the flash    *)
(* value store, and which program a behaviour is of.                       *)
(***************************************************************************)
EXTENDS FlashBlocks, HostFifo, SlabLayout, StoreTest

CONSTANTS
  MaxRuns,  (* bound of the model: processes started one after another      *)
  Requests, (* the numbers of SETs and GETs of a behaviour                  *)
  NumTests, MaxLarge

ASSUME RequestsAssumption == Requests \subseteq Nat \X Nat

VARIABLES
  program, runs,
  (* the tests of the flash value store *)
  readTagTable, tagArray, numWords, getting, issued, testCnt,
  rdArray, burstCnt, burstLimit, idCnt, nread, early

tagged == << readTagTable, tagArray, numWords, getting, issued, testCnt >>
oneByOne == << rdArray, burstCnt, burstLimit, idCnt, nread, early >>
test == << store_vars, tagged, oneByOne >>

vars == << program, runs, batch, flash, slabs, fifo, test >>

Programs == { "TestBluecache", "BetterDRAM", "BetterDRAMSticky",
              "TestBluecacheFlash", "TestBluecacheFinal", "Multi5678" }

OnFlash == Programs \ { "TestBluecacheFinal", "Multi5678" }
-----------------------------------------------------------------------------
(* populateMappingTable gives no real block to two virtual blocks, unless  *)
(* the fresh blocks of the chip have a gap.                                *)
OneBlockEach == [][OneBlockEachUnlessGap]_vars
=============================================================================
