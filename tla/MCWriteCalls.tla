---------------------------- MODULE MCWriteCalls ----------------------------
EXTENDS WriteCalls, InventoryWrites, ZtpWrites, ConfigWrites, ServiceWrites,
        AssuranceWrites
MCCalls == InventoryCalls \cup ZtpCalls \cup ConfigCalls \cup ServiceCalls
           \cup AssuranceCalls
=============================================================================
