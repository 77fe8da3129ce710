----------------------------- MODULE MC_PerfMon -----------------------------
EXTENDS PerfMon

\* Two cache events and two fabric events, read cache first as the
\* snapshot does.
MC_Plan == <<"Cache_Read_Hit", "Cache_Write_Hit",
             "Fabric_PCIe0_Read", "Fabric_UPI_Write">>
MC_Cache == {"Cache_Read_Hit", "Cache_Write_Hit"}
MC_Fabric == {"Fabric_PCIe0_Read", "Fabric_UPI_Write"}
=============================================================================
