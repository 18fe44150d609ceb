----------------------------- MODULE DinDecoder -----------------------------
(*****************************************************************************)
(* The decoder functions of dinEXIDatatypesDecoder.c.  Each reads the        *)
(* content of one type: it resets the struct, then per grammarID an event    *)
(* code of the width in the row and what the event brings, until the end     *)
(* event.  An event code without an event, and any error of a value, ends    *)
(* the decoding with an error.                                               *)
(*****************************************************************************)
EXTENDS ExiGrammar

decode_dinMeteringReceiptReqType == <<
  Row(0, 2, <<OptAttr("Id", Characters, 1), Elem("SessionID", Bytes, 2)>>),
  Row(1, 1, <<Elem("SessionID", Bytes, 2)>>),
  Row(2, 2, <<OptElem("SAScheduleTupleID", Signed(16), 3),
            Elem("MeterInfo", Struct("dinMeterInfoType"), 4)>>),
  Row(3, 1, <<Elem("MeterInfo", Struct("dinMeterInfoType"), 4)>>), Last(4)>>
decode_dinBodyType == <<
  Row(6, 6, <<OptElem("BodyElement", Struct("dinBodyBaseType"), 4),
            OptElem("CableCheckReq", Struct("dinCableCheckReqType"), 4),
            OptElem("CableCheckRes", Struct("dinCableCheckResType"), 4),
            OptElem("CertificateInstallationReq", Struct("dinCertificateInstallationReqType"), 4),
            OptElem("CertificateInstallationRes", Struct("dinCertificateInstallationResType"), 4),
            OptElem("CertificateUpdateReq", Struct("dinCertificateUpdateReqType"), 4),
            OptElem("CertificateUpdateRes", Struct("dinCertificateUpdateResType"), 4),
            OptElem("ChargeParameterDiscoveryReq", Struct("dinChargeParameterDiscoveryReqType"), 4),
            OptElem("ChargeParameterDiscoveryRes", Struct("dinChargeParameterDiscoveryResType"), 4),
            OptElem("ChargingStatusReq", Struct("dinChargingStatusReqType"), 4),
            OptElem("ChargingStatusRes", Struct("dinChargingStatusResType"), 4),
            OptElem("ContractAuthenticationReq", Struct("dinContractAuthenticationReqType"), 4),
            OptElem("ContractAuthenticationRes", Struct("dinContractAuthenticationResType"), 4),
            OptElem("CurrentDemandReq", Struct("dinCurrentDemandReqType"), 4),
            OptElem("CurrentDemandRes", Struct("dinCurrentDemandResType"), 4),
            OptElem("MeteringReceiptReq", Struct("dinMeteringReceiptReqType"), 4),
            OptElem("MeteringReceiptRes", Struct("dinMeteringReceiptResType"), 4),
            OptElem("PaymentDetailsReq", Struct("dinPaymentDetailsReqType"), 4),
            OptElem("PaymentDetailsRes", Struct("dinPaymentDetailsResType"), 4),
            OptElem("PowerDeliveryReq", Struct("dinPowerDeliveryReqType"), 4),
            OptElem("PowerDeliveryRes", Struct("dinPowerDeliveryResType"), 4),
            OptElem("PreChargeReq", Struct("dinPreChargeReqType"), 4),
            OptElem("PreChargeRes", Struct("dinPreChargeResType"), 4),
            OptElem("ServiceDetailReq", Struct("dinServiceDetailReqType"), 4),
            OptElem("ServiceDetailRes", Struct("dinServiceDetailResType"), 4),
            OptElem("ServiceDiscoveryReq", Struct("dinServiceDiscoveryReqType"), 4),
            OptElem("ServiceDiscoveryRes", Struct("dinServiceDiscoveryResType"), 4),
            OptElem("ServicePaymentSelectionReq", Struct("dinServicePaymentSelectionReqType"), 4),
            OptElem("ServicePaymentSelectionRes", Struct("dinServicePaymentSelectionResType"), 4),
            OptElem("SessionSetupReq", Struct("dinSessionSetupReqType"), 4),
            OptElem("SessionSetupRes", Struct("dinSessionSetupResType"), 4),
            OptElem("SessionStopReq", Struct("dinSessionStopType"), 4),
            OptElem("SessionStopRes", Struct("dinSessionStopResType"), 4),
            OptElem("WeldingDetectionReq", Struct("dinWeldingDetectionReqType"), 4),
            OptElem("WeldingDetectionRes", Struct("dinWeldingDetectionResType"), 4), End>>),
  Last(4)>>
decode_dinSessionSetupReqType == <<Row(7, 1, <<Elem("EVCCID", Bytes, 4)>>), Last(4)>>
decode_dinPowerDeliveryResType == <<
  Row(8, 1, <<Elem("ResponseCode", NBit(5), 9)>>),
  Row(9, 2, <<OptElem("AC_EVSEStatus", Struct("dinAC_EVSEStatusType"), 4),
            OptElem("DC_EVSEStatus", Struct("dinDC_EVSEStatusType"), 4),
            OptElem("EVSEStatus", Struct("dinEVSEStatusType"), 4)>>),
  Last(4)>>
decode_dinServiceDetailResType == <<
  Row(10, 1, <<Elem("ResponseCode", NBit(5), 11)>>),
  Row(11, 1, <<Elem("ServiceID", Unsigned(16), 12)>>),
  Row(12, 2, <<OptElem("ServiceParameterList", Struct("dinServiceParameterListType"), 4), End>>),
  Last(4)>>
decode_dinWeldingDetectionResType == <<
  Row(13, 1, <<Elem("ResponseCode", NBit(5), 14)>>),
  Row(14, 1, <<Elem("DC_EVSEStatus", Struct("dinDC_EVSEStatusType"), 15)>>),
  Row(15, 1, <<Elem("EVSEPresentVoltage", Struct("dinPhysicalValueType"), 4)>>), Last(4)>>
decode_dinContractAuthenticationResType == <<
  Row(16, 1, <<Elem("ResponseCode", NBit(5), 17)>>),
  Row(17, 1, <<Elem("EVSEProcessing", NBit(1), 4)>>), Last(4)>>
decode_dinCanonicalizationMethodType == <<
  Row(18, 1, <<Attr("Algorithm", Characters, 19)>>), Row(19, 2, <<Wild(20), End, Text(20)>>),
  Row(20, 2, <<Wild(20), End, Text(20)>>)>>
decode_dinSPKIDataType == <<
  Row(21, 1, <<Item("SPKISexp", Bytes, 1, 22)>>),
  Row(22, 2, <<Item("SPKISexp", Bytes, 1, 22), Wild(23), End>>),
  Row(23, 2, <<Item("SPKISexp", Bytes, 1, 22), End>>)>>
decode_dinListOfRootCertificateIDsType == <<
  Row(24, 1, <<Item("RootCertificateID", Characters, 5, 25)>>),
  Row(25, 2, <<Item("RootCertificateID", Characters, 5, 25), End>>)>>
decode_dinSelectedServiceListType == <<
  Row(26, 1, <<Item("SelectedService", Struct("dinSelectedServiceType"), 16, 27)>>),
  Row(27, 2, <<Item("SelectedService", Struct("dinSelectedServiceType"), 16, 27), End>>)>>
decode_dinCurrentDemandResType == <<
  Row(28, 1, <<Elem("ResponseCode", NBit(5), 29)>>),
  Row(29, 1, <<Elem("DC_EVSEStatus", Struct("dinDC_EVSEStatusType"), 30)>>),
  Row(30, 1, <<Elem("EVSEPresentVoltage", Struct("dinPhysicalValueType"), 31)>>),
  Row(31, 1, <<Elem("EVSEPresentCurrent", Struct("dinPhysicalValueType"), 32)>>),
  Row(32, 1, <<Elem("EVSECurrentLimitAchieved", Bool, 33)>>),
  Row(33, 1, <<Elem("EVSEVoltageLimitAchieved", Bool, 34)>>),
  Row(34, 1, <<Elem("EVSEPowerLimitAchieved", Bool, 35)>>),
  Row(35, 3, <<OptElem("EVSEMaximumVoltageLimit", Struct("dinPhysicalValueType"), 36),
            OptElem("EVSEMaximumCurrentLimit", Struct("dinPhysicalValueType"), 37),
            OptElem("EVSEMaximumPowerLimit", Struct("dinPhysicalValueType"), 4), End>>),
  Row(36, 2, <<OptElem("EVSEMaximumCurrentLimit", Struct("dinPhysicalValueType"), 37),
            OptElem("EVSEMaximumPowerLimit", Struct("dinPhysicalValueType"), 4), End>>),
  Row(37, 2, <<OptElem("EVSEMaximumPowerLimit", Struct("dinPhysicalValueType"), 4), End>>),
  Last(4)>>
decode_dinTransformType == <<
  Row(38, 1, <<Attr("Algorithm", Characters, 39)>>),
  Row(39, 3, <<Item("XPath", Characters, 1, 40), Wild(40), End, Text(40)>>),
  Row(40, 3, <<Item("XPath", Characters, 1, 40), Wild(40), End, Text(40)>>)>>
decode_dinAC_EVChargeParameterType == <<
  Row(41, 1, <<Elem("DepartureTime", Unsigned(32), 42)>>),
  Row(42, 1, <<Elem("EAmount", Struct("dinPhysicalValueType"), 43)>>),
  Row(43, 1, <<Elem("EVMaxVoltage", Struct("dinPhysicalValueType"), 44)>>),
  Row(44, 1, <<Elem("EVMaxCurrent", Struct("dinPhysicalValueType"), 45)>>),
  Row(45, 1, <<Elem("EVMinCurrent", Struct("dinPhysicalValueType"), 4)>>), Last(4)>>
decode_dinX509DataType == <<
  Row(46, 3, <<Item("X509IssuerSerial", Struct("dinX509IssuerSerialType"), 1, 47),
            Item("X509SKI", Bytes, 1, 47), Item("X509SubjectName", Characters, 1, 47),
            Item("X509Certificate", Bytes, 1, 47), Item("X509CRL", Bytes, 1, 47), Wild(47)>>),
  Row(47, 3, <<Item("X509IssuerSerial", Struct("dinX509IssuerSerialType"), 1, 47),
            Item("X509SKI", Bytes, 1, 47), Item("X509SubjectName", Characters, 1, 47),
            Item("X509Certificate", Bytes, 1, 47), Item("X509CRL", Bytes, 1, 47), Wild(47), End>>)>>
decode_dinChargingStatusResType == <<
  Row(48, 1, <<Elem("ResponseCode", NBit(5), 49)>>), Row(49, 1, <<Elem("EVSEID", Bytes, 50)>>),
  Row(50, 1, <<Elem("SAScheduleTupleID", Signed(16), 51)>>),
  Row(51, 2, <<OptElem("EVSEMaxCurrent", Struct("dinPhysicalValueType"), 52),
            OptElem("MeterInfo", Struct("dinMeterInfoType"), 53),
            Elem("ReceiptRequired", Bool, 54)>>),
  Row(52, 2, <<OptElem("MeterInfo", Struct("dinMeterInfoType"), 53),
            Elem("ReceiptRequired", Bool, 54)>>),
  Row(53, 1, <<Elem("ReceiptRequired", Bool, 54)>>),
  Row(54, 1, <<Elem("AC_EVSEStatus", Struct("dinAC_EVSEStatusType"), 4)>>), Last(4)>>
decode_dinWeldingDetectionReqType == <<
  Row(55, 1, <<Elem("DC_EVStatus", Struct("dinDC_EVStatusType"), 4)>>), Last(4)>>
decode_dinSignaturePropertiesType == <<
  Row(56, 2, <<OptAttr("Id", Characters, 57),
            Item("SignatureProperty", Struct("dinSignaturePropertyType"), 1, 58)>>),
  Row(57, 1, <<Item("SignatureProperty", Struct("dinSignaturePropertyType"), 1, 58)>>),
  Row(58, 2, <<Item("SignatureProperty", Struct("dinSignaturePropertyType"), 1, 58), End>>)>>
decode_dinContractAuthenticationReqType == <<
  Row(59, 2, <<OptAttr("Id", Characters, 60), OptElem("GenChallenge", Characters, 4), End>>),
  Row(60, 2, <<OptElem("GenChallenge", Characters, 4), End>>), Last(4)>>
decode_dinDC_EVPowerDeliveryParameterType == <<
  Row(61, 1, <<Elem("DC_EVStatus", Struct("dinDC_EVStatusType"), 62)>>),
  Row(62, 2, <<OptElem("BulkChargingComplete", Bool, 63), Elem("ChargingComplete", Bool, 4)>>),
  Row(63, 1, <<Elem("ChargingComplete", Bool, 4)>>), Last(4)>>
decode_dinEVSEChargeParameterType == <<Last(64)>>
decode_dinCableCheckReqType == <<
  Row(55, 1, <<Elem("DC_EVStatus", Struct("dinDC_EVStatusType"), 4)>>), Last(4)>>
decode_dinDC_EVChargeParameterType == <<
  Row(65, 1, <<Elem("DC_EVStatus", Struct("dinDC_EVStatusType"), 66)>>),
  Row(66, 1, <<Elem("EVMaximumCurrentLimit", Struct("dinPhysicalValueType"), 67)>>),
  Row(67, 2, <<OptElem("EVMaximumPowerLimit", Struct("dinPhysicalValueType"), 68),
            Elem("EVMaximumVoltageLimit", Struct("dinPhysicalValueType"), 69)>>),
  Row(68, 1, <<Elem("EVMaximumVoltageLimit", Struct("dinPhysicalValueType"), 69)>>),
  Row(69, 3, <<OptElem("EVEnergyCapacity", Struct("dinPhysicalValueType"), 70),
            OptElem("EVEnergyRequest", Struct("dinPhysicalValueType"), 71),
            OptElem("FullSOC", NBit(7), 72), OptElem("BulkSOC", NBit(7), 4), End>>),
  Row(70, 3, <<OptElem("EVEnergyRequest", Struct("dinPhysicalValueType"), 71),
            OptElem("FullSOC", NBit(7), 72), OptElem("BulkSOC", NBit(7), 4), End>>),
  Row(71, 2, <<OptElem("FullSOC", NBit(7), 72), OptElem("BulkSOC", NBit(7), 4), End>>),
  Row(72, 2, <<OptElem("BulkSOC", NBit(7), 4), End>>), Last(4)>>
\* A mutant: the last place of the array is never used.
decode_dinSAScheduleListType_TooFew == <<
  Row(73, 1, <<Item("SAScheduleTuple", Struct("dinSAScheduleTupleType"), 5, 74)>>),
  Row(74, 2, <<Item("SAScheduleTuple", Struct("dinSAScheduleTupleType"), 4, 74), End>>)>>
decode_dinSAScheduleListType == <<
  Row(73, 1, <<Item("SAScheduleTuple", Struct("dinSAScheduleTupleType"), 5, 74)>>),
  Row(74, 2, <<Item("SAScheduleTuple", Struct("dinSAScheduleTupleType"), 5, 74), End>>)>>
\* A mutant: more entries are taken than the struct has room for.
decode_dinPMaxScheduleType_TooMany == <<
  Row(75, 1, <<Elem("PMaxScheduleID", Signed(16), 76)>>),
  Row(76, 1, <<Item("PMaxScheduleEntry", Struct("dinPMaxScheduleEntryType"), 5, 77)>>),
  Row(77, 2, <<Item("PMaxScheduleEntry", Struct("dinPMaxScheduleEntryType"), 12, 77), End>>)>>
decode_dinPMaxScheduleType == <<
  Row(75, 1, <<Elem("PMaxScheduleID", Signed(16), 76)>>),
  Row(76, 1, <<Item("PMaxScheduleEntry", Struct("dinPMaxScheduleEntryType"), 5, 77)>>),
  Row(77, 2, <<Item("PMaxScheduleEntry", Struct("dinPMaxScheduleEntryType"), 5, 77), End>>)>>
decode_dinServicePaymentSelectionReqType == <<
  Row(78, 1, <<Elem("SelectedPaymentOption", NBit(1), 79)>>),
  Row(79, 1, <<Elem("SelectedServiceList", Struct("dinSelectedServiceListType"), 4)>>), Last(4)>>
decode_dinRelativeTimeIntervalType == <<
  Row(80, 1, <<Elem("start", Unsigned(32), 81)>>),
  Row(81, 2, <<OptElem("duration", Unsigned(32), 4), End>>), Last(4)>>
decode_dinEVStatusType == <<Last(64)>>
decode_dinPreChargeResType == <<
  Row(13, 1, <<Elem("ResponseCode", NBit(5), 14)>>),
  Row(14, 1, <<Elem("DC_EVSEStatus", Struct("dinDC_EVSEStatusType"), 15)>>),
  Row(15, 1, <<Elem("EVSEPresentVoltage", Struct("dinPhysicalValueType"), 4)>>), Last(4)>>
decode_dinDC_EVSEChargeParameterType == <<
  Row(82, 1, <<Elem("DC_EVSEStatus", Struct("dinDC_EVSEStatusType"), 83)>>),
  Row(83, 1, <<Elem("EVSEMaximumCurrentLimit", Struct("dinPhysicalValueType"), 84)>>),
  Row(84, 2, <<OptElem("EVSEMaximumPowerLimit", Struct("dinPhysicalValueType"), 85),
            Elem("EVSEMaximumVoltageLimit", Struct("dinPhysicalValueType"), 86)>>),
  Row(85, 1, <<Elem("EVSEMaximumVoltageLimit", Struct("dinPhysicalValueType"), 86)>>),
  Row(86, 1, <<Elem("EVSEMinimumCurrentLimit", Struct("dinPhysicalValueType"), 87)>>),
  Row(87, 1, <<Elem("EVSEMinimumVoltageLimit", Struct("dinPhysicalValueType"), 88)>>),
  Row(88, 2, <<OptElem("EVSECurrentRegulationTolerance", Struct("dinPhysicalValueType"), 89),
            Elem("EVSEPeakCurrentRipple", Struct("dinPhysicalValueType"), 90)>>),
  Row(89, 1, <<Elem("EVSEPeakCurrentRipple", Struct("dinPhysicalValueType"), 90)>>),
  Row(90, 2, <<OptElem("EVSEEnergyToBeDelivered", Struct("dinPhysicalValueType"), 4), End>>),
  Last(4)>>
decode_dinPaymentDetailsResType == <<
  Row(91, 1, <<Elem("ResponseCode", NBit(5), 92)>>),
  Row(92, 1, <<Elem("GenChallenge", Characters, 93)>>),
  Row(93, 1, <<Elem("DateTimeNow", Signed(64), 4)>>), Last(4)>>
decode_dinDSAKeyValueType == <<
  Row(94, 2, <<OptElem("P", Bytes, 95), OptElem("G", Bytes, 96), Elem("Y", Bytes, 97)>>),
  Row(95, 1, <<OptElem("Q", Bytes, 98)>>),
  Row(98, 2, <<OptElem("G", Bytes, 96), Elem("Y", Bytes, 97)>>),
  Row(96, 1, <<Elem("Y", Bytes, 97)>>),
  Row(97, 2, <<OptElem("J", Bytes, 99), OptElem("Seed", Bytes, 100), End>>),
  Row(99, 2, <<OptElem("Seed", Bytes, 100), End>>),
  Row(100, 1, <<OptElem("PgenCounter", Bytes, 4)>>), Last(4)>>
decode_dinSASchedulesType == <<Last(64)>>
decode_dinCertificateUpdateResType == <<
  Row(101, 1, <<Attr("Id", Characters, 102)>>),
  Row(102, 1, <<Elem("ResponseCode", NBit(5), 103)>>),
  Row(103, 1, <<Elem("ContractSignatureCertChain", Struct("dinCertificateChainType"), 104)>>),
  Row(104, 1, <<Elem("ContractSignatureEncryptedPrivateKey", Bytes, 105)>>),
  Row(105, 1, <<Elem("DHParams", Bytes, 106)>>),
  Row(106, 1, <<Elem("ContractID", Characters, 107)>>),
  Row(107, 1, <<Elem("RetryCounter", Signed(16), 4)>>), Last(4)>>
decode_dinEVChargeParameterType == <<Last(64)>>
decode_dinMessageHeaderType == <<
  Row(108, 1, <<Elem("SessionID", Bytes, 109)>>),
  Row(109, 2, <<OptElem("Notification", Struct("dinNotificationType"), 110),
            OptElem("Signature", Struct("dinSignatureType"), 4), End>>),
  Row(110, 2, <<OptElem("Signature", Struct("dinSignatureType"), 4), End>>), Last(4)>>
decode_dinBodyBaseType == <<Last(64)>>
decode_dinKeyValueType == <<
  Row(111, 3, <<OptElem("DSAKeyValue", Struct("dinDSAKeyValueType"), 112),
            OptElem("RSAKeyValue", Struct("dinRSAKeyValueType"), 112), Wild(112), Text(113)>>),
  Row(112, 2, <<End, Text(112)>>),
  Row(113, 3, <<OptElem("DSAKeyValue", Struct("dinDSAKeyValueType"), 112),
            OptElem("RSAKeyValue", Struct("dinRSAKeyValueType"), 112), Wild(112), Text(113)>>)>>
decode_dinIntervalType == <<Last(64)>>
decode_dinChargeParameterDiscoveryResType == <<
  Row(114, 1, <<Elem("ResponseCode", NBit(5), 115)>>),
  Row(115, 1, <<Elem("EVSEProcessing", NBit(1), 116)>>),
  Row(116, 2, <<OptElem("SAScheduleList", Struct("dinSAScheduleListType"), 117),
            OptElem("SASchedules", Struct("dinSASchedulesType"), 117)>>),
  Row(117, 2, <<OptElem("AC_EVSEChargeParameter", Struct("dinAC_EVSEChargeParameterType"), 4),
            OptElem("DC_EVSEChargeParameter", Struct("dinDC_EVSEChargeParameterType"), 4),
            OptElem("EVSEChargeParameter", Struct("dinEVSEChargeParameterType"), 4)>>),
  Last(4)>>
decode_dinPowerDeliveryReqType == <<
  Row(118, 1, <<Elem("ReadyToChargeState", Bool, 119)>>),
  Row(119, 3, <<OptElem("ChargingProfile", Struct("dinChargingProfileType"), 120),
            OptElem("DC_EVPowerDeliveryParameter", Struct("dinDC_EVPowerDeliveryParameterType"), 4),
            OptElem("EVPowerDeliveryParameter", Struct("dinEVPowerDeliveryParameterType"), 4),
            End>>),
  Row(120, 2, <<OptElem("DC_EVPowerDeliveryParameter", Struct("dinDC_EVPowerDeliveryParameterType"), 4),
            OptElem("EVPowerDeliveryParameter", Struct("dinEVPowerDeliveryParameterType"), 4),
            End>>),
  Last(4)>>
decode_dinCertificateChainType == <<
  Row(121, 1, <<Elem("Certificate", Bytes, 122)>>),
  Row(122, 2, <<OptElem("SubCertificates", Struct("dinSubCertificatesType"), 4), End>>), Last(4)>>
decode_dinTransformsType == <<
  Row(123, 1, <<Item("Transform", Struct("dinTransformType"), 1, 124)>>),
  Row(124, 2, <<Item("Transform", Struct("dinTransformType"), 1, 124), End>>)>>
decode_dinEntryType == <<
  Row(125, 2, <<OptElem("RelativeTimeInterval", Struct("dinRelativeTimeIntervalType"), 4),
            OptElem("TimeInterval", Struct("dinIntervalType"), 4)>>),
  Last(4)>>
decode_dinSessionStopType == <<Last(64)>>
decode_dinServiceDetailReqType == <<Row(126, 1, <<Elem("ServiceID", Unsigned(16), 4)>>), Last(4)>>
decode_dinDigestMethodType == <<
  Row(18, 1, <<Attr("Algorithm", Characters, 19)>>), Row(19, 2, <<Wild(20), End, Text(20)>>),
  Row(20, 2, <<Wild(20), End, Text(20)>>)>>
decode_dinParameterType == <<
  Row(127, 1, <<Attr("Name", Characters, 128)>>),
  Row(128, 1, <<Attr("ValueType", NBit(3), 129)>>),
  Row(129, 3, <<OptElem("boolValue", Bool, 4), OptElem("byteValue", NBitFrom(8, -128), 4),
            OptElem("shortValue", Signed(16), 4), OptElem("intValue", Signed(32), 4),
            OptElem("physicalValue", Struct("dinPhysicalValueType"), 4),
            OptElem("stringValue", Characters, 4)>>),
  Last(4)>>
decode_dinChargingStatusReqType == <<Last(64)>>
decode_dinSignatureMethodType == <<
  Row(130, 1, <<Attr("Algorithm", Characters, 131)>>),
  Row(131, 3, <<OptElem("HMACOutputLength", Signed(64), 20), Wild(20), End, Text(132)>>),
  Row(20, 2, <<Wild(20), End, Text(20)>>),
  Row(132, 3, <<OptElem("HMACOutputLength", Signed(64), 20), Wild(20), End, Text(132)>>)>>
decode_dinCertificateInstallationReqType == <<
  Row(133, 2, <<OptAttr("Id", Characters, 134), Elem("OEMProvisioningCert", Bytes, 135)>>),
  Row(134, 1, <<Elem("OEMProvisioningCert", Bytes, 135)>>),
  Row(135, 1, <<Elem("ListOfRootCertificateIDs", Struct("dinListOfRootCertificateIDsType"), 136)>>),
  Row(136, 1, <<Elem("DHParams", Bytes, 4)>>), Last(4)>>
decode_dinSalesTariffEntryType == <<
  Row(137, 2, <<OptElem("RelativeTimeInterval", Struct("dinRelativeTimeIntervalType"), 138),
            OptElem("TimeInterval", Struct("dinIntervalType"), 138)>>),
  Row(138, 1, <<Elem("EPriceLevel", NBit(8), 139)>>),
  Row(139, 2, <<Item("ConsumptionCost", Struct("dinConsumptionCostType"), 5, 139), End>>)>>
decode_dinServiceDiscoveryResType == <<
  Row(140, 1, <<Elem("ResponseCode", NBit(5), 141)>>),
  Row(141, 1, <<Elem("PaymentOptions", Struct("dinPaymentOptionsType"), 142)>>),
  Row(142, 1, <<Elem("ChargeService", Struct("dinServiceChargeType"), 143)>>),
  Row(143, 2, <<OptElem("ServiceList", Struct("dinServiceTagListType"), 4), End>>), Last(4)>>
decode_dinParameterSetType == <<
  Row(144, 1, <<Elem("ParameterSetID", Signed(16), 145)>>),
  Row(145, 1, <<Item("Parameter", Struct("dinParameterType"), 16, 146)>>),
  Row(146, 2, <<Item("Parameter", Struct("dinParameterType"), 16, 146), End>>)>>
decode_dinCurrentDemandReqType == <<
  Row(147, 1, <<Elem("DC_EVStatus", Struct("dinDC_EVStatusType"), 148)>>),
  Row(148, 1, <<Elem("EVTargetCurrent", Struct("dinPhysicalValueType"), 149)>>),
  Row(149, 3, <<OptElem("EVMaximumVoltageLimit", Struct("dinPhysicalValueType"), 150),
            OptElem("EVMaximumCurrentLimit", Struct("dinPhysicalValueType"), 151),
            OptElem("EVMaximumPowerLimit", Struct("dinPhysicalValueType"), 152),
            OptElem("BulkChargingComplete", Bool, 153), Elem("ChargingComplete", Bool, 154)>>),
  Row(150, 3, <<OptElem("EVMaximumCurrentLimit", Struct("dinPhysicalValueType"), 151),
            OptElem("EVMaximumPowerLimit", Struct("dinPhysicalValueType"), 152),
            OptElem("BulkChargingComplete", Bool, 153), Elem("ChargingComplete", Bool, 154)>>),
  Row(151, 2, <<OptElem("EVMaximumPowerLimit", Struct("dinPhysicalValueType"), 152),
            OptElem("BulkChargingComplete", Bool, 153), Elem("ChargingComplete", Bool, 154)>>),
  Row(152, 2, <<OptElem("BulkChargingComplete", Bool, 153), Elem("ChargingComplete", Bool, 154)>>),
  Row(153, 1, <<Elem("ChargingComplete", Bool, 154)>>),
  Row(154, 2, <<OptElem("RemainingTimeToFullSoC", Struct("dinPhysicalValueType"), 155),
            OptElem("RemainingTimeToBulkSoC", Struct("dinPhysicalValueType"), 156),
            Elem("EVTargetVoltage", Struct("dinPhysicalValueType"), 4)>>),
  Row(155, 2, <<OptElem("RemainingTimeToBulkSoC", Struct("dinPhysicalValueType"), 156),
            Elem("EVTargetVoltage", Struct("dinPhysicalValueType"), 4)>>),
  Row(156, 1, <<Elem("EVTargetVoltage", Struct("dinPhysicalValueType"), 4)>>), Last(4)>>
decode_dinPreChargeReqType == <<
  Row(157, 1, <<Elem("DC_EVStatus", Struct("dinDC_EVStatusType"), 158)>>),
  Row(158, 1, <<Elem("EVTargetVoltage", Struct("dinPhysicalValueType"), 159)>>),
  Row(159, 1, <<Elem("EVTargetCurrent", Struct("dinPhysicalValueType"), 4)>>), Last(4)>>
decode_dinSignatureType == <<
  Row(160, 2, <<OptAttr("Id", Characters, 161),
            Elem("SignedInfo", Struct("dinSignedInfoType"), 162)>>),
  Row(161, 1, <<Elem("SignedInfo", Struct("dinSignedInfoType"), 162)>>),
  Row(162, 1, <<Elem("SignatureValue", Struct("dinSignatureValueType"), 163)>>),
  Row(163, 2, <<OptElem("KeyInfo", Struct("dinKeyInfoType"), 164),
            Item("Object", Struct("dinObjectType"), 1, 164), End>>),
  Row(164, 2, <<Item("Object", Struct("dinObjectType"), 1, 164), End>>)>>
decode_dinReferenceType == <<
  Row(165, 3, <<OptAttr("Id", Characters, 166), OptAttr("Type", Characters, 167),
            OptAttr("URI", Characters, 168),
            OptElem("Transforms", Struct("dinTransformsType"), 169),
            Elem("DigestMethod", Struct("dinDigestMethodType"), 170)>>),
  Row(166, 3, <<OptAttr("Type", Characters, 167), OptAttr("URI", Characters, 168),
            OptElem("Transforms", Struct("dinTransformsType"), 169),
            Elem("DigestMethod", Struct("dinDigestMethodType"), 170)>>),
  Row(167, 2, <<OptAttr("URI", Characters, 168),
            OptElem("Transforms", Struct("dinTransformsType"), 169),
            Elem("DigestMethod", Struct("dinDigestMethodType"), 170)>>),
  Row(168, 2, <<OptElem("Transforms", Struct("dinTransformsType"), 169),
            Elem("DigestMethod", Struct("dinDigestMethodType"), 170)>>),
  Row(169, 1, <<Elem("DigestMethod", Struct("dinDigestMethodType"), 170)>>),
  Row(170, 1, <<Elem("DigestValue", Bytes, 4)>>), Last(4)>>
decode_dinProfileEntryType == <<
  Row(171, 1, <<Elem("ChargingProfileEntryStart", Unsigned(32), 172)>>),
  Row(172, 1, <<Elem("ChargingProfileEntryMaxPower", Signed(16), 4)>>), Last(4)>>
decode_dinAnonType_V2G_Message == <<
  Row(173, 1, <<Elem("Header", Struct("dinMessageHeaderType"), 174)>>),
  Row(174, 1, <<Elem("Body", Struct("dinBodyType"), 4)>>), Last(4)>>
decode_dinChargeParameterDiscoveryReqType == <<
  Row(175, 1, <<Elem("EVRequestedEnergyTransferType", NBit(3), 176)>>),
  Row(176, 2, <<OptElem("AC_EVChargeParameter", Struct("dinAC_EVChargeParameterType"), 4),
            OptElem("DC_EVChargeParameter", Struct("dinDC_EVChargeParameterType"), 4),
            OptElem("EVChargeParameter", Struct("dinEVChargeParameterType"), 4)>>),
  Last(4)>>
decode_dinConsumptionCostType == <<
  Row(177, 1, <<Elem("startValue", Unsigned(32), 178)>>),
  Row(178, 2, <<Item("Cost", Struct("dinCostType"), 5, 178), End>>)>>
decode_dinRSAKeyValueType == <<
  Row(179, 1, <<Elem("Modulus", Bytes, 180)>>), Row(180, 1, <<Elem("Exponent", Bytes, 4)>>),
  Last(4)>>
decode_dinServiceType == <<
  Row(181, 1, <<Elem("ServiceTag", Struct("dinServiceTagType"), 182)>>),
  Row(182, 1, <<Elem("FreeService", Bool, 4)>>), Last(4)>>
decode_dinServiceTagListType == <<
  Row(183, 1, <<Item("Service", Struct("dinServiceType"), 8, 184)>>),
  Row(184, 2, <<Item("Service", Struct("dinServiceType"), 8, 184), End>>)>>
decode_dinEVSEStatusType == <<Last(64)>>
decode_dinSessionSetupResType == <<
  Row(185, 1, <<Elem("ResponseCode", NBit(5), 186)>>),
  Row(186, 1, <<Elem("EVSEID", Bytes, 187)>>),
  Row(187, 2, <<OptElem("DateTimeNow", Signed(64), 4), End>>), Last(4)>>
decode_dinEVPowerDeliveryParameterType == <<Last(64)>>
decode_dinX509IssuerSerialType == <<
  Row(188, 1, <<Elem("X509IssuerName", Characters, 189)>>),
  Row(189, 1, <<Elem("X509SerialNumber", Signed(64), 4)>>), Last(4)>>
decode_dinSelectedServiceType == <<
  Row(190, 1, <<Elem("ServiceID", Unsigned(16), 191)>>),
  Row(191, 2, <<OptElem("ParameterSetID", Signed(16), 4), End>>), Last(4)>>
decode_dinMeteringReceiptResType == <<
  Row(192, 1, <<Elem("ResponseCode", NBit(5), 54)>>),
  Row(54, 1, <<Elem("AC_EVSEStatus", Struct("dinAC_EVSEStatusType"), 4)>>), Last(4)>>
\* A mutant: the choice without EVCabinConditioning is read with the width of the full one.
decode_dinDC_EVStatusType_WrongWidth == <<
  Row(193, 1, <<Elem("EVReady", Bool, 194)>>),
  Row(194, 3, <<OptElem("EVCabinConditioning", Bool, 195), OptElem("EVRESSConditioning", Bool, 196),
            Elem("EVErrorCode", NBit(4), 197)>>),
  Row(195, 2, <<OptElem("EVRESSConditioning", Bool, 196), Elem("EVErrorCode", NBit(4), 197)>>),
  Row(196, 1, <<Elem("EVErrorCode", NBit(4), 197)>>),
  Row(197, 1, <<Elem("EVRESSSOC", NBit(7), 4)>>), Last(4)>>
decode_dinDC_EVStatusType == <<
  Row(193, 1, <<Elem("EVReady", Bool, 194)>>),
  Row(194, 2, <<OptElem("EVCabinConditioning", Bool, 195), OptElem("EVRESSConditioning", Bool, 196),
            Elem("EVErrorCode", NBit(4), 197)>>),
  Row(195, 2, <<OptElem("EVRESSConditioning", Bool, 196), Elem("EVErrorCode", NBit(4), 197)>>),
  Row(196, 1, <<Elem("EVErrorCode", NBit(4), 197)>>),
  Row(197, 1, <<Elem("EVRESSSOC", NBit(7), 4)>>), Last(4)>>
decode_dinPhysicalValueType == <<
  Row(198, 1, <<Elem("Multiplier", NBitFrom(3, -3), 199)>>),
  Row(199, 2, <<OptElem("Unit", NBit(4), 200), Elem("Value", Signed(16), 4)>>),
  Row(200, 1, <<Elem("Value", Signed(16), 4)>>), Last(4)>>
decode_dinManifestType == <<
  Row(201, 2, <<OptAttr("Id", Characters, 202),
            Item("Reference", Struct("dinReferenceType"), 1, 203)>>),
  Row(202, 1, <<Item("Reference", Struct("dinReferenceType"), 1, 203)>>),
  Row(203, 2, <<Item("Reference", Struct("dinReferenceType"), 1, 203), End>>)>>
decode_dinPMaxScheduleEntryType == <<
  Row(204, 2, <<OptElem("RelativeTimeInterval", Struct("dinRelativeTimeIntervalType"), 205),
            OptElem("TimeInterval", Struct("dinIntervalType"), 205)>>),
  Row(205, 1, <<Elem("PMax", Signed(16), 4)>>), Last(4)>>
decode_dinServiceParameterListType == <<
  Row(206, 1, <<Item("ParameterSet", Struct("dinParameterSetType"), 1, 207)>>),
  Row(207, 2, <<Item("ParameterSet", Struct("dinParameterSetType"), 1, 207), End>>)>>
decode_dinSignatureValueType == <<
  Row(208, 2, <<OptAttr("Id", Characters, 209), Content(Bytes, 4)>>),
  Row(209, 1, <<Content(Bytes, 4)>>), Last(4)>>
decode_dinPaymentOptionsType == <<
  Row(210, 1, <<Item("PaymentOption", NBit(1), 5, 211)>>),
  Row(211, 2, <<Item("PaymentOption", NBit(1), 5, 211), End>>)>>
decode_dinServiceTagType == <<
  Row(212, 1, <<Elem("ServiceID", Unsigned(16), 213)>>),
  Row(213, 2, <<OptElem("ServiceName", Characters, 214), Elem("ServiceCategory", NBit(2), 215)>>),
  Row(214, 1, <<Elem("ServiceCategory", NBit(2), 215)>>),
  Row(215, 2, <<OptElem("ServiceScope", Characters, 4), End>>), Last(4)>>
decode_dinAC_EVSEStatusType == <<
  Row(216, 1, <<Elem("PowerSwitchClosed", Bool, 217)>>), Row(217, 1, <<Elem("RCD", Bool, 218)>>),
  Row(218, 1, <<Elem("NotificationMaxDelay", Unsigned(32), 219)>>),
  Row(219, 1, <<Elem("EVSENotification", NBit(2), 4)>>), Last(4)>>
decode_dinCertificateUpdateReqType == <<
  Row(220, 2, <<OptAttr("Id", Characters, 221),
            Elem("ContractSignatureCertChain", Struct("dinCertificateChainType"), 222)>>),
  Row(221, 1, <<Elem("ContractSignatureCertChain", Struct("dinCertificateChainType"), 222)>>),
  Row(222, 1, <<Elem("ContractID", Characters, 135)>>),
  Row(135, 1, <<Elem("ListOfRootCertificateIDs", Struct("dinListOfRootCertificateIDsType"), 136)>>),
  Row(136, 1, <<Elem("DHParams", Bytes, 4)>>), Last(4)>>
decode_dinServicePaymentSelectionResType == <<
  Row(223, 1, <<Elem("ResponseCode", NBit(5), 4)>>), Last(4)>>
decode_dinSAScheduleTupleType == <<
  Row(224, 1, <<Elem("SAScheduleTupleID", Signed(16), 225)>>),
  Row(225, 1, <<Elem("PMaxSchedule", Struct("dinPMaxScheduleType"), 226)>>),
  Row(226, 2, <<OptElem("SalesTariff", Struct("dinSalesTariffType"), 4), End>>), Last(4)>>
decode_dinChargingProfileType == <<
  Row(227, 1, <<Elem("SAScheduleTupleID", Signed(16), 228)>>),
  Row(228, 1, <<Item("ProfileEntry", Struct("dinProfileEntryType"), 24, 229)>>),
  Row(229, 2, <<Item("ProfileEntry", Struct("dinProfileEntryType"), 24, 229), End>>)>>
decode_dinServiceDiscoveryReqType == <<
  Row(230, 2, <<OptElem("ServiceScope", Characters, 231), OptElem("ServiceCategory", NBit(2), 4),
            End>>),
  Row(231, 2, <<OptElem("ServiceCategory", NBit(2), 4), End>>), Last(4)>>
decode_dinAC_EVSEChargeParameterType == <<
  Row(232, 1, <<Elem("AC_EVSEStatus", Struct("dinAC_EVSEStatusType"), 233)>>),
  Row(233, 1, <<Elem("EVSEMaxVoltage", Struct("dinPhysicalValueType"), 234)>>),
  Row(234, 1, <<Elem("EVSEMaxCurrent", Struct("dinPhysicalValueType"), 235)>>),
  Row(235, 1, <<Elem("EVSEMinCurrent", Struct("dinPhysicalValueType"), 4)>>), Last(4)>>
decode_dinKeyInfoType == <<
  Row(236, 4, <<OptAttr("Id", Characters, 237), Item("KeyName", Characters, 1, 238),
            Item("KeyValue", Struct("dinKeyValueType"), 1, 238),
            Item("RetrievalMethod", Struct("dinRetrievalMethodType"), 1, 238),
            Item("X509Data", Struct("dinX509DataType"), 1, 238),
            Item("PGPData", Struct("dinPGPDataType"), 1, 238),
            Item("SPKIData", Struct("dinSPKIDataType"), 1, 238),
            Item("MgmtData", Characters, 1, 238), Wild(238), Text(239)>>),
  Row(237, 4, <<Item("KeyName", Characters, 1, 238),
            Item("KeyValue", Struct("dinKeyValueType"), 1, 238),
            Item("RetrievalMethod", Struct("dinRetrievalMethodType"), 1, 238),
            Item("X509Data", Struct("dinX509DataType"), 1, 238),
            Item("PGPData", Struct("dinPGPDataType"), 1, 238),
            Item("SPKIData", Struct("dinSPKIDataType"), 1, 238),
            Item("MgmtData", Characters, 1, 238), Wild(238), Text(239)>>),
  Row(238, 4, <<Item("KeyName", Characters, 1, 238),
            Item("KeyValue", Struct("dinKeyValueType"), 1, 238),
            Item("RetrievalMethod", Struct("dinRetrievalMethodType"), 1, 238),
            Item("X509Data", Struct("dinX509DataType"), 1, 238),
            Item("PGPData", Struct("dinPGPDataType"), 1, 238),
            Item("SPKIData", Struct("dinSPKIDataType"), 1, 238),
            Item("MgmtData", Characters, 1, 238), Wild(238), End, Text(238)>>),
  Row(239, 4, <<Item("KeyName", Characters, 1, 238),
            Item("KeyValue", Struct("dinKeyValueType"), 1, 238),
            Item("RetrievalMethod", Struct("dinRetrievalMethodType"), 1, 238),
            Item("X509Data", Struct("dinX509DataType"), 1, 238),
            Item("PGPData", Struct("dinPGPDataType"), 1, 238),
            Item("SPKIData", Struct("dinSPKIDataType"), 1, 238),
            Item("MgmtData", Characters, 1, 238), Wild(238), Text(239)>>)>>
decode_dinPaymentDetailsReqType == <<
  Row(240, 1, <<Elem("ContractID", Characters, 241)>>),
  Row(241, 1, <<Elem("ContractSignatureCertChain", Struct("dinCertificateChainType"), 4)>>),
  Last(4)>>
decode_dinCableCheckResType == <<
  Row(242, 1, <<Elem("ResponseCode", NBit(5), 243)>>),
  Row(243, 1, <<Elem("DC_EVSEStatus", Struct("dinDC_EVSEStatusType"), 17)>>),
  Row(17, 1, <<Elem("EVSEProcessing", NBit(1), 4)>>), Last(4)>>
decode_dinObjectType == <<
  Row(244, 3, <<OptAttr("Encoding", Characters, 245), OptAttr("Id", Characters, 246),
            OptAttr("MimeType", Characters, 19), Wild(20), End, Text(20)>>),
  Row(245, 3, <<OptAttr("Id", Characters, 246), OptAttr("MimeType", Characters, 19), Wild(20), End,
            Text(20)>>),
  Row(246, 3, <<OptAttr("MimeType", Characters, 19), Wild(20), End, Text(20)>>),
  Row(19, 2, <<Wild(20), End, Text(20)>>), Row(20, 2, <<Wild(20), End, Text(20)>>)>>
decode_dinSessionStopResType == <<Row(223, 1, <<Elem("ResponseCode", NBit(5), 4)>>), Last(4)>>
decode_dinSignedInfoType == <<
  Row(247, 2, <<OptAttr("Id", Characters, 248),
            Elem("CanonicalizationMethod", Struct("dinCanonicalizationMethodType"), 249)>>),
  Row(248, 1, <<Elem("CanonicalizationMethod", Struct("dinCanonicalizationMethodType"), 249)>>),
  Row(249, 1, <<Elem("SignatureMethod", Struct("dinSignatureMethodType"), 250)>>),
  Row(250, 1, <<Item("Reference", Struct("dinReferenceType"), 1, 203)>>),
  Row(203, 2, <<Item("Reference", Struct("dinReferenceType"), 1, 203), End>>)>>
decode_dinSalesTariffType == <<
  Row(251, 1, <<Attr("Id", Characters, 252)>>),
  Row(252, 1, <<Elem("SalesTariffID", Signed(16), 253)>>),
  Row(253, 2, <<OptElem("SalesTariffDescription", Characters, 254),
            Elem("NumEPriceLevels", NBit(8), 255)>>),
  Row(254, 1, <<Elem("NumEPriceLevels", NBit(8), 255)>>),
  Row(255, 1, <<Item("SalesTariffEntry", Struct("dinSalesTariffEntryType"), 5, 256)>>),
  Row(256, 2, <<Item("SalesTariffEntry", Struct("dinSalesTariffEntryType"), 5, 256), End>>)>>
decode_dinCostType == <<
  Row(257, 1, <<Elem("costKind", NBit(2), 258)>>),
  Row(258, 1, <<Elem("amount", Unsigned(32), 259)>>),
  Row(259, 2, <<OptElem("amountMultiplier", NBitFrom(3, -3), 4), End>>), Last(4)>>
decode_dinServiceChargeType == <<
  Row(260, 1, <<Elem("ServiceTag", Struct("dinServiceTagType"), 261)>>),
  Row(261, 1, <<Elem("FreeService", Bool, 262)>>),
  Row(262, 1, <<Elem("EnergyTransferType", NBit(4), 4)>>), Last(4)>>
decode_dinDC_EVSEStatusType == <<
  Row(263, 2, <<OptElem("EVSEIsolationStatus", NBit(2), 264), Elem("EVSEStatusCode", NBit(4), 218)>>),
  Row(264, 1, <<Elem("EVSEStatusCode", NBit(4), 218)>>),
  Row(218, 1, <<Elem("NotificationMaxDelay", Unsigned(32), 219)>>),
  Row(219, 1, <<Elem("EVSENotification", NBit(2), 4)>>), Last(4)>>
decode_dinRetrievalMethodType == <<
  Row(265, 3, <<OptAttr("Type", Characters, 266), OptAttr("URI", Characters, 267),
            OptElem("Transforms", Struct("dinTransformsType"), 4), End>>),
  Row(266, 2, <<OptAttr("URI", Characters, 267),
            OptElem("Transforms", Struct("dinTransformsType"), 4), End>>),
  Row(267, 2, <<OptElem("Transforms", Struct("dinTransformsType"), 4), End>>), Last(4)>>
decode_dinNotificationType == <<
  Row(268, 1, <<Elem("FaultCode", NBit(2), 269)>>),
  Row(269, 2, <<OptElem("FaultMsg", Characters, 4), End>>), Last(4)>>
decode_dinPGPDataType == <<
  Row(270, 2, <<OptElem("PGPKeyID", Bytes, 271), OptElem("PGPKeyPacket", Bytes, 272)>>),
  Row(271, 2, <<OptElem("PGPKeyPacket", Bytes, 272), Wild(272), End>>),
  Row(272, 2, <<Wild(272), End>>)>>
decode_dinCertificateInstallationResType == <<
  Row(273, 1, <<Attr("Id", Characters, 274)>>),
  Row(274, 1, <<Elem("ResponseCode", NBit(5), 275)>>),
  Row(275, 1, <<Elem("ContractSignatureCertChain", Struct("dinCertificateChainType"), 276)>>),
  Row(276, 1, <<Elem("ContractSignatureEncryptedPrivateKey", Bytes, 277)>>),
  Row(277, 1, <<Elem("DHParams", Bytes, 278)>>),
  Row(278, 1, <<Elem("ContractID", Characters, 4)>>), Last(4)>>
decode_dinSignaturePropertyType == <<
  Row(279, 2, <<OptAttr("Id", Characters, 280), Attr("Target", Characters, 281)>>),
  Row(280, 1, <<Attr("Target", Characters, 281)>>), Row(281, 2, <<Wild(20), Text(282)>>),
  Row(20, 2, <<Wild(20), End, Text(20)>>), Row(282, 2, <<Wild(20), Text(282)>>)>>
decode_dinMeterInfoType == <<
  Row(283, 1, <<Elem("MeterID", Characters, 284)>>),
  Row(284, 3, <<OptElem("MeterReading", Struct("dinPhysicalValueType"), 285),
            OptElem("SigMeterReading", Bytes, 286), OptElem("MeterStatus", Signed(16), 287),
            OptElem("TMeter", Signed(64), 4), End>>),
  Row(285, 3, <<OptElem("SigMeterReading", Bytes, 286), OptElem("MeterStatus", Signed(16), 287),
            OptElem("TMeter", Signed(64), 4), End>>),
  Row(286, 2, <<OptElem("MeterStatus", Signed(16), 287), OptElem("TMeter", Signed(64), 4), End>>),
  Row(287, 2, <<OptElem("TMeter", Signed(64), 4), End>>), Last(4)>>
decode_dinSubCertificatesType == <<
  Row(288, 1, <<Item("Certificate", Bytes, 5, 289)>>),
  Row(289, 2, <<Item("Certificate", Bytes, 5, 289), End>>)>>

\* The document: the root element, and nothing after it.
decode_dinExiDocument == <<Row(0, 7, <<
  OptElem("AC_EVChargeParameter", Struct("dinAC_EVChargeParameterType"), 1),
  OptElem("AC_EVSEChargeParameter", Struct("dinAC_EVSEChargeParameterType"), 1),
  OptElem("AC_EVSEStatus", Struct("dinAC_EVSEStatusType"), 1),
  OptElem("BodyElement", Struct("dinBodyBaseType"), 1),
  OptElem("CableCheckReq", Struct("dinCableCheckReqType"), 1),
  OptElem("CableCheckRes", Struct("dinCableCheckResType"), 1),
  OptElem("CanonicalizationMethod", Struct("dinCanonicalizationMethodType"), 1),
  OptElem("CertificateInstallationReq", Struct("dinCertificateInstallationReqType"), 1),
  OptElem("CertificateInstallationRes", Struct("dinCertificateInstallationResType"), 1),
  OptElem("CertificateUpdateReq", Struct("dinCertificateUpdateReqType"), 1),
  OptElem("CertificateUpdateRes", Struct("dinCertificateUpdateResType"), 1),
  OptElem("ChargeParameterDiscoveryReq", Struct("dinChargeParameterDiscoveryReqType"), 1),
  OptElem("ChargeParameterDiscoveryRes", Struct("dinChargeParameterDiscoveryResType"), 1),
  OptElem("ChargingStatusReq", Struct("dinChargingStatusReqType"), 1),
  OptElem("ChargingStatusRes", Struct("dinChargingStatusResType"), 1),
  OptElem("ContractAuthenticationReq", Struct("dinContractAuthenticationReqType"), 1),
  OptElem("ContractAuthenticationRes", Struct("dinContractAuthenticationResType"), 1),
  OptElem("CurrentDemandReq", Struct("dinCurrentDemandReqType"), 1),
  OptElem("CurrentDemandRes", Struct("dinCurrentDemandResType"), 1),
  OptElem("DC_EVChargeParameter", Struct("dinDC_EVChargeParameterType"), 1),
  OptElem("DC_EVPowerDeliveryParameter", Struct("dinDC_EVPowerDeliveryParameterType"), 1),
  OptElem("DC_EVSEChargeParameter", Struct("dinDC_EVSEChargeParameterType"), 1),
  OptElem("DC_EVSEStatus", Struct("dinDC_EVSEStatusType"), 1),
  OptElem("DC_EVStatus", Struct("dinDC_EVStatusType"), 1),
  OptElem("DSAKeyValue", Struct("dinDSAKeyValueType"), 1),
  OptElem("DigestMethod", Struct("dinDigestMethodType"), 1), OptElem("DigestValue", Bytes, 1),
  OptElem("EVChargeParameter", Struct("dinEVChargeParameterType"), 1),
  OptElem("EVPowerDeliveryParameter", Struct("dinEVPowerDeliveryParameterType"), 1),
  OptElem("EVSEChargeParameter", Struct("dinEVSEChargeParameterType"), 1),
  OptElem("EVSEStatus", Struct("dinEVSEStatusType"), 1),
  OptElem("EVStatus", Struct("dinEVStatusType"), 1), OptElem("Entry", Struct("dinEntryType"), 1),
  OptElem("KeyInfo", Struct("dinKeyInfoType"), 1), OptElem("KeyName", Characters, 1),
  OptElem("KeyValue", Struct("dinKeyValueType"), 1),
  OptElem("Manifest", Struct("dinManifestType"), 1),
  OptElem("MeteringReceiptReq", Struct("dinMeteringReceiptReqType"), 1),
  OptElem("MeteringReceiptRes", Struct("dinMeteringReceiptResType"), 1),
  OptElem("MgmtData", Characters, 1), OptElem("Object", Struct("dinObjectType"), 1),
  OptElem("PGPData", Struct("dinPGPDataType"), 1),
  OptElem("PMaxScheduleEntry", Struct("dinPMaxScheduleEntryType"), 1),
  OptElem("PaymentDetailsReq", Struct("dinPaymentDetailsReqType"), 1),
  OptElem("PaymentDetailsRes", Struct("dinPaymentDetailsResType"), 1),
  OptElem("PowerDeliveryReq", Struct("dinPowerDeliveryReqType"), 1),
  OptElem("PowerDeliveryRes", Struct("dinPowerDeliveryResType"), 1),
  OptElem("PreChargeReq", Struct("dinPreChargeReqType"), 1),
  OptElem("PreChargeRes", Struct("dinPreChargeResType"), 1),
  OptElem("RSAKeyValue", Struct("dinRSAKeyValueType"), 1),
  OptElem("Reference", Struct("dinReferenceType"), 1),
  OptElem("RelativeTimeInterval", Struct("dinRelativeTimeIntervalType"), 1),
  OptElem("RetrievalMethod", Struct("dinRetrievalMethodType"), 1),
  OptElem("SAScheduleList", Struct("dinSAScheduleListType"), 1),
  OptElem("SASchedules", Struct("dinSASchedulesType"), 1),
  OptElem("SPKIData", Struct("dinSPKIDataType"), 1),
  OptElem("SalesTariffEntry", Struct("dinSalesTariffEntryType"), 1),
  OptElem("ServiceCharge", Struct("dinServiceChargeType"), 1),
  OptElem("ServiceDetailReq", Struct("dinServiceDetailReqType"), 1),
  OptElem("ServiceDetailRes", Struct("dinServiceDetailResType"), 1),
  OptElem("ServiceDiscoveryReq", Struct("dinServiceDiscoveryReqType"), 1),
  OptElem("ServiceDiscoveryRes", Struct("dinServiceDiscoveryResType"), 1),
  OptElem("ServicePaymentSelectionReq", Struct("dinServicePaymentSelectionReqType"), 1),
  OptElem("ServicePaymentSelectionRes", Struct("dinServicePaymentSelectionResType"), 1),
  OptElem("SessionSetupReq", Struct("dinSessionSetupReqType"), 1),
  OptElem("SessionSetupRes", Struct("dinSessionSetupResType"), 1),
  OptElem("SessionStopReq", Struct("dinSessionStopType"), 1),
  OptElem("SessionStopRes", Struct("dinSessionStopResType"), 1),
  OptElem("Signature", Struct("dinSignatureType"), 1),
  OptElem("SignatureMethod", Struct("dinSignatureMethodType"), 1),
  OptElem("SignatureProperties", Struct("dinSignaturePropertiesType"), 1),
  OptElem("SignatureProperty", Struct("dinSignaturePropertyType"), 1),
  OptElem("SignatureValue", Struct("dinSignatureValueType"), 1),
  OptElem("SignedInfo", Struct("dinSignedInfoType"), 1),
  OptElem("TimeInterval", Struct("dinIntervalType"), 1),
  OptElem("Transform", Struct("dinTransformType"), 1),
  OptElem("Transforms", Struct("dinTransformsType"), 1),
  OptElem("V2G_Message", Struct("dinAnonType_V2G_Message"), 1),
  OptElem("WeldingDetectionReq", Struct("dinWeldingDetectionReqType"), 1),
  OptElem("WeldingDetectionRes", Struct("dinWeldingDetectionResType"), 1),
  OptElem("X509Data", Struct("dinX509DataType"), 1)>>)>>

DinDecoders == [
  dinMeteringReceiptReqType |-> decode_dinMeteringReceiptReqType,
  dinBodyType |-> decode_dinBodyType, dinSessionSetupReqType |-> decode_dinSessionSetupReqType,
  dinPowerDeliveryResType |-> decode_dinPowerDeliveryResType,
  dinServiceDetailResType |-> decode_dinServiceDetailResType,
  dinWeldingDetectionResType |-> decode_dinWeldingDetectionResType,
  dinContractAuthenticationResType |-> decode_dinContractAuthenticationResType,
  dinCanonicalizationMethodType |-> decode_dinCanonicalizationMethodType,
  dinSPKIDataType |-> decode_dinSPKIDataType,
  dinListOfRootCertificateIDsType |-> decode_dinListOfRootCertificateIDsType,
  dinSelectedServiceListType |-> decode_dinSelectedServiceListType,
  dinCurrentDemandResType |-> decode_dinCurrentDemandResType,
  dinTransformType |-> decode_dinTransformType,
  dinAC_EVChargeParameterType |-> decode_dinAC_EVChargeParameterType,
  dinX509DataType |-> decode_dinX509DataType,
  dinChargingStatusResType |-> decode_dinChargingStatusResType,
  dinWeldingDetectionReqType |-> decode_dinWeldingDetectionReqType,
  dinSignaturePropertiesType |-> decode_dinSignaturePropertiesType,
  dinContractAuthenticationReqType |-> decode_dinContractAuthenticationReqType,
  dinDC_EVPowerDeliveryParameterType |-> decode_dinDC_EVPowerDeliveryParameterType,
  dinEVSEChargeParameterType |-> decode_dinEVSEChargeParameterType,
  dinCableCheckReqType |-> decode_dinCableCheckReqType,
  dinDC_EVChargeParameterType |-> decode_dinDC_EVChargeParameterType,
  dinSAScheduleListType |-> decode_dinSAScheduleListType,
  dinPMaxScheduleType |-> decode_dinPMaxScheduleType,
  dinServicePaymentSelectionReqType |-> decode_dinServicePaymentSelectionReqType,
  dinRelativeTimeIntervalType |-> decode_dinRelativeTimeIntervalType,
  dinEVStatusType |-> decode_dinEVStatusType, dinPreChargeResType |-> decode_dinPreChargeResType,
  dinDC_EVSEChargeParameterType |-> decode_dinDC_EVSEChargeParameterType,
  dinPaymentDetailsResType |-> decode_dinPaymentDetailsResType,
  dinDSAKeyValueType |-> decode_dinDSAKeyValueType,
  dinSASchedulesType |-> decode_dinSASchedulesType,
  dinCertificateUpdateResType |-> decode_dinCertificateUpdateResType,
  dinEVChargeParameterType |-> decode_dinEVChargeParameterType,
  dinMessageHeaderType |-> decode_dinMessageHeaderType,
  dinBodyBaseType |-> decode_dinBodyBaseType, dinKeyValueType |-> decode_dinKeyValueType,
  dinIntervalType |-> decode_dinIntervalType,
  dinChargeParameterDiscoveryResType |-> decode_dinChargeParameterDiscoveryResType,
  dinPowerDeliveryReqType |-> decode_dinPowerDeliveryReqType,
  dinCertificateChainType |-> decode_dinCertificateChainType,
  dinTransformsType |-> decode_dinTransformsType, dinEntryType |-> decode_dinEntryType,
  dinSessionStopType |-> decode_dinSessionStopType,
  dinServiceDetailReqType |-> decode_dinServiceDetailReqType,
  dinDigestMethodType |-> decode_dinDigestMethodType,
  dinParameterType |-> decode_dinParameterType,
  dinChargingStatusReqType |-> decode_dinChargingStatusReqType,
  dinSignatureMethodType |-> decode_dinSignatureMethodType,
  dinCertificateInstallationReqType |-> decode_dinCertificateInstallationReqType,
  dinSalesTariffEntryType |-> decode_dinSalesTariffEntryType,
  dinServiceDiscoveryResType |-> decode_dinServiceDiscoveryResType,
  dinParameterSetType |-> decode_dinParameterSetType,
  dinCurrentDemandReqType |-> decode_dinCurrentDemandReqType,
  dinPreChargeReqType |-> decode_dinPreChargeReqType,
  dinSignatureType |-> decode_dinSignatureType, dinReferenceType |-> decode_dinReferenceType,
  dinProfileEntryType |-> decode_dinProfileEntryType,
  dinAnonType_V2G_Message |-> decode_dinAnonType_V2G_Message,
  dinChargeParameterDiscoveryReqType |-> decode_dinChargeParameterDiscoveryReqType,
  dinConsumptionCostType |-> decode_dinConsumptionCostType,
  dinRSAKeyValueType |-> decode_dinRSAKeyValueType, dinServiceType |-> decode_dinServiceType,
  dinServiceTagListType |-> decode_dinServiceTagListType,
  dinEVSEStatusType |-> decode_dinEVSEStatusType,
  dinSessionSetupResType |-> decode_dinSessionSetupResType,
  dinEVPowerDeliveryParameterType |-> decode_dinEVPowerDeliveryParameterType,
  dinX509IssuerSerialType |-> decode_dinX509IssuerSerialType,
  dinSelectedServiceType |-> decode_dinSelectedServiceType,
  dinMeteringReceiptResType |-> decode_dinMeteringReceiptResType,
  dinDC_EVStatusType |-> decode_dinDC_EVStatusType,
  dinPhysicalValueType |-> decode_dinPhysicalValueType,
  dinManifestType |-> decode_dinManifestType,
  dinPMaxScheduleEntryType |-> decode_dinPMaxScheduleEntryType,
  dinServiceParameterListType |-> decode_dinServiceParameterListType,
  dinSignatureValueType |-> decode_dinSignatureValueType,
  dinPaymentOptionsType |-> decode_dinPaymentOptionsType,
  dinServiceTagType |-> decode_dinServiceTagType,
  dinAC_EVSEStatusType |-> decode_dinAC_EVSEStatusType,
  dinCertificateUpdateReqType |-> decode_dinCertificateUpdateReqType,
  dinServicePaymentSelectionResType |-> decode_dinServicePaymentSelectionResType,
  dinSAScheduleTupleType |-> decode_dinSAScheduleTupleType,
  dinChargingProfileType |-> decode_dinChargingProfileType,
  dinServiceDiscoveryReqType |-> decode_dinServiceDiscoveryReqType,
  dinAC_EVSEChargeParameterType |-> decode_dinAC_EVSEChargeParameterType,
  dinKeyInfoType |-> decode_dinKeyInfoType,
  dinPaymentDetailsReqType |-> decode_dinPaymentDetailsReqType,
  dinCableCheckResType |-> decode_dinCableCheckResType, dinObjectType |-> decode_dinObjectType,
  dinSessionStopResType |-> decode_dinSessionStopResType,
  dinSignedInfoType |-> decode_dinSignedInfoType,
  dinSalesTariffType |-> decode_dinSalesTariffType, dinCostType |-> decode_dinCostType,
  dinServiceChargeType |-> decode_dinServiceChargeType,
  dinDC_EVSEStatusType |-> decode_dinDC_EVSEStatusType,
  dinRetrievalMethodType |-> decode_dinRetrievalMethodType,
  dinNotificationType |-> decode_dinNotificationType, dinPGPDataType |-> decode_dinPGPDataType,
  dinCertificateInstallationResType |-> decode_dinCertificateInstallationResType,
  dinSignaturePropertyType |-> decode_dinSignaturePropertyType,
  dinMeterInfoType |-> decode_dinMeterInfoType,
  dinSubCertificatesType |-> decode_dinSubCertificatesType,
  dinEXIDocument |-> decode_dinExiDocument]
=============================================================================
