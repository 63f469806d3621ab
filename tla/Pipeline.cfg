SPECIFICATION StartsWithC1
CONSTANTS
  r1 = r1  r2 = r2  a1 = a1  a2 = a2  t1 = t1  t2 = t2
  p1 = p1  p2 = p2  c1 = c1  c2 = c2
  None = None
  DefaultTenant = DefaultTenant
  Requests <- TwoRequests
  Aggregates <- OneAggregate
  AggregateOf <- SameTaxpayer
  Tenants <- TwoTenants
  TenantOf <- OwnTenants
  Publishers <- TwoPublishers
  Consumers <- TwoConsumers
  BatchSize = 2
  MaxPoll = 2
  MaxRetries = 1
  MaxFaults = 2
INVARIANTS
  PublishedIsInLog OnlyCommittedEvents NoDuplicateWithoutFault AcknowledgedIsHandled TenantKept
  OrderUnlessPassedOver ConvergesUnlessPassedOver
PROPERTY CommittedIsDelivered
