---------------------------- MODULE MCSystemBoot ----------------------------
(***************************************************************************)
(* TLC instances of SystemBoot.  One parameter name is longer than what a  *)
(* query keeps of it; the shipped configuration holds it cut.              *)
(***************************************************************************)
EXTENDS SystemBoot

Components == {"sensorTemp", "cloudConnector", "nwStackConfigurator"}

NamesInUse ==
    {"Domain-Sensor", "Domain-CloudConnector", "Domain-NwStack",
     "MQTT_Payload", "MQTT_Topic",
     "CloudServiceIP", "ServerPort", "ServerCaCert",
     "IoT-Hub", "SharedAccessSignature", "SharedAccess", "IoT-Device",
     "ETH_ADDR", "ETH_GATEWAY_ADDR", "ETH_SUBNET_MASK"}

CutNames == [n \in NamesInUse |-> IF n = "SharedAccessSignature" THEN "SharedAccess" ELSE n]

\* A domain with the given parameters, of n bytes each.
DomainOf(name, params, n) ==
    [name |-> name, sizes |-> [p \in NamesInUse |-> IF p \in params THEN n ELSE Absent]]

SensorDomain(n) == DomainOf("Domain-Sensor", {"MQTT_Payload", "MQTT_Topic"}, n)
CloudDomain(sas) ==
    DomainOf("Domain-CloudConnector",
             {"CloudServiceIP", "ServerPort", "ServerCaCert", "IoT-Hub", sas, "IoT-Device"}, 4)
StackDomain == DomainOf("Domain-NwStack", {"ETH_ADDR", "ETH_GATEWAY_ADDR", "ETH_SUBNET_MASK"}, 16)

Shipped == <<SensorDomain(127), CloudDomain("SharedAccess"), StackDomain>>

\* Another order, with a second domain of a name and none for the sensor; a
\* payload larger than its buffer, a name longer than a query keeps, and no
\* domain for the stack; and values that fill the buffers of the sensor.
StoredConfigs ==
    {Shipped, <<SensorDomain(128)>>,
     <<CloudDomain("SharedAccess"), StackDomain, DomainOf("Domain-NwStack", {"ETH_ADDR"}, 4)>>,
     <<SensorDomain(200), CloudDomain("SharedAccessSignature")>>}

ShippedOnly == {Shipped}

\* A value of 127 bytes, one that is empty, and one that strlen runs out of.
SomeLengths == {0, 127, 200}

NothingFails == {}
MountFails   == {"OS_FileSystem_mount"}
=============================================================================
